---- MODULE Spec2Model ----
(***************************************************************************)
(* Incremental upload of an FMU case to Sumo: the export manifest, the     *)
(* uploads log (.sumo_uploads.json), the staged files of a CaseOnDisk      *)
(* object, and the calls add_files() and upload() with the pre-pass, the   *)
(* per-file upload attempts and the classification of their results.       *)
(* Under Spec each call is one step; what it leaves to its caller (return  *)
(* value, warnings, locals) is visible until the caller goes on.  SpecIndex *)
(* runs _get_next_index alone.  SpecPool and SpecPrepass run one upload()  *)
(* step by step, with the loop of the pre-pass and the tasks of the worker *)
(* pool; SpecMove does so under every upload mode.  SpecCase runs          *)
(* register(), add_files() and upload() on a case that may be on Sumo      *)
(* already, from run directories with or without manifest and uploads log. *)
(* SpecAppend is Spec with a manifest that is only appended to; SpecOnce   *)
(* runs whole invocations one after another with every upload accepted.    *)
(* SpecFile makes one FileOnDisk; SpecSanitize applies _sanitize_datetimes *)
(* to case metadata.                                                       *)
(*                                                                         *)
(* A manifest record is [absolute_path, exported_at]; exported_by is never *)
(* read by the uploader and is left out.  Timestamps are small integers.   *)
(* A JSON object with a missing key is a record without that field.        *)
(***************************************************************************)
EXTENDS Integers, Sequences, FiniteSets, TLC

VARIABLES
    manifest_exists,  \* the export manifest file exists
    manifest,         \* its content: sequence of manifest records
    uploads_exists,   \* .sumo_uploads.json exists
    sumo_uploads,     \* its content: sequence of log entries
    disk,             \* path -> "nofile" | "nometa" | "bare" | "real"
    clock,            \* number of exports so far
    registered,       \* the case object exists on Sumo
    files,            \* CaseOnDisk._files: sequence of [path, meta]
    pc,               \* "idle" | "returned"
    call,             \* the operation that just returned ("none" when idle)
    raised,           \* exception leaving the call ("none" when it returned)
    ret,              \* what the call returned
    warnings,         \* warnings.warn() messages of the call, in order
    logged,           \* logger.warning() messages of the call, in order
    next_index,       \* add_files(): result of _get_next_index
    selected,         \* add_files(): paths returned by _find_file_paths
    files_to_upload,  \* upload(): the batch after the pre-pass
    prepass,          \* upload(): what the pre-pass of _upload_files did
    results,          \* upload(): per batch position the result of _upload_file
    buckets,          \* upload(): ok_uploads, failed_uploads, rejected_uploads
    remote_calls,     \* upload(): which kinds of calls went to the Sumo client
    synced,           \* history: the log was written and the manifest is as it was then
    pre,              \* history: the staged files and the log when the call began
    threads,          \* upload(threads): size of the worker pool
    scan,             \* _upload_files: position of the loop over the batch
    tasks,            \* _upload_files: per batch position the state of its task
    reordered,        \* history: a task finished before one submitted earlier
    events,           \* history: remote calls and file accesses, and who made them
    sumo_parent_id,   \* SumoCase._sumo_parent_id
    registration,     \* history: "none", or how the last register() ended
    sumo_mode,        \* SumoCase.sumo_mode
    sumo_objects,     \* classes of the realization's objects that exist on Sumo
    classes,          \* maybe_upload_realization_and_ensemble: what the search found
    history,          \* history: the phase of the invocation, and per path the
                      \* number of its uploads that ended 'ok'
    file_bytes,       \* one data file: the bytes on disk
    file_metadata,    \* its metadata file: the mapping it holds
    file_object,      \* the FileOnDisk made from the two
    case_metadata_arg,  \* SumoCase(case_metadata): the argument
    case_metadata,    \* SumoCase.case_metadata
    sanitize_calls    \* how often _sanitize_datetimes was applied to it

vars == <<manifest_exists, manifest, uploads_exists, sumo_uploads, disk,
          clock, registered, files, pc, call, raised, ret, warnings, logged,
          next_index, selected, files_to_upload, prepass, results, buckets,
          remote_calls, synced, pre, threads, scan, tasks, reordered, events,
          sumo_parent_id, registration, sumo_mode, sumo_objects, classes,
          history, file_bytes, file_metadata, file_object, case_metadata_arg,
          case_metadata, sanitize_calls>>

-----------------------------------------------------------------------------
(* Bounds of the model *)

\* exports (manifest appends and regenerations) in one behaviour
MaxExports == 2
\* staged files of one case object
MaxStaged == MaxExports
\* entries of the uploads log
MaxLedger == MaxExports
\* length of the manifests given to _get_next_index alone
MaxManifestIn == 3
\* entries before the last one in the logs given to _get_next_index alone
MaxLedgerPrefix == 1

-----------------------------------------------------------------------------
(* Python values *)

Return(v) == [raised |-> "none", value |-> v]
Raise(e) == [raised |-> e, value |-> 0]

HasKey(d, k) == k \in DOMAIN d

\* seq[i] for a Python list: a negative i counts from the end
InRange(seq, i) == -Len(seq) <= i /\ i < Len(seq)
PyItem(seq, i) == IF i >= 0 THEN seq[i + 1] ELSE seq[Len(seq) + i + 1]

\* seq[n:] for a Python list
PySliceFrom(seq, n) ==
    LET start == IF n >= 0 THEN (IF n > Len(seq) THEN Len(seq) ELSE n)
                 ELSE (IF Len(seq) + n < 0 THEN 0 ELSE Len(seq) + n)
    IN  SubSeq(seq, start + 1, Len(seq))

-----------------------------------------------------------------------------
(* CaseOnDisk._get_next_index *)

\* a slip: the index of the last uploaded record itself is returned
_get_next_index_same(M, L) ==
    IF L = <<>> \/ M = <<>> THEN Return(0)
    ELSE LET last == L[Len(L)] IN
         IF ~HasKey(last, "last_index_manifest") THEN Raise("KeyError")
         ELSE IF ~HasKey(last, "timestamp") THEN Raise("KeyError")
         ELSE LET i == last.last_index_manifest IN
              IF InRange(M, i) /\ HasKey(PyItem(M, i), "exported_at")
                 /\ PyItem(M, i).exported_at = last.timestamp
              THEN Return(i)
              ELSE Return(0)

\* a slip: with an empty log or an empty manifest nothing is left to select
_get_next_index_skip(M, L) ==
    IF L = <<>> \/ M = <<>> THEN Return(Len(M))
    ELSE _get_next_index_same(M, L)

_get_next_index(M, L) ==
    IF L = <<>> \/ M = <<>> THEN Return(0)
    ELSE LET last == L[Len(L)] IN
         \* the two reads of sumo_uploads[-1] are outside the try block
         IF ~HasKey(last, "last_index_manifest") THEN Raise("KeyError")
         ELSE IF ~HasKey(last, "timestamp") THEN Raise("KeyError")
         ELSE LET last_uploaded_index == last.last_index_manifest
                  ts_uploads == last.timestamp
              IN  IF ~InRange(M, last_uploaded_index)
                  THEN Return(0)                       \* IndexError, caught
                  ELSE LET rec == PyItem(M, last_uploaded_index) IN
                       IF ~HasKey(rec, "exported_at")
                       THEN Return(0)                  \* KeyError, caught
                       ELSE IF rec.exported_at = ts_uploads
                            THEN Return(last_uploaded_index + 1)
                            ELSE Return(0)

-----------------------------------------------------------------------------
(* CaseOnDisk._find_file_paths, FileOnDisk and CaseOnDisk.add_files *)

\* the data files that exist on a disk d
IsFile(d) == {p \in DOMAIN d : d[p] # "nofile"}

RECURSIVE ExistingPaths(_, _)
\* [f["absolute_path"] for f in recs if os.path.isfile(f["absolute_path"])]
ExistingPaths(recs, d) ==
    IF recs = <<>> THEN <<>>
    ELSE IF Head(recs).absolute_path \in IsFile(d)
         THEN <<Head(recs).absolute_path>> \o ExistingPaths(Tail(recs), d)
         ELSE ExistingPaths(Tail(recs), d)

\* a slip: the selection starts at index 0 whatever the log says
_find_file_paths_all(mex, M, uex, L, d) ==
    IF ~mex THEN [raised |-> "FileNotFoundError", next_index |-> Return(0),
                  files |-> <<>>, warnings |-> <<>>]
    ELSE LET found == ExistingPaths(M, d) IN
         [raised |-> "none", next_index |-> Return(0), files |-> found,
          warnings |-> IF Len(found) = 0 THEN <<"No files found!">> ELSE <<>>]

\* a slip: an absent manifest is taken for an empty one
_find_file_paths_warn(mex, M, uex, L, d) ==
    IF ~mex THEN [raised |-> "none", next_index |-> Return(0),
                  files |-> <<>>, warnings |-> <<"No files found!">>]
    ELSE _find_file_paths_all(mex, M, uex, L, d)

_find_file_paths(mex, M, uex, L, d) ==
    IF ~mex     \* _load_export_manifest
    THEN [raised |-> "FileNotFoundError", next_index |-> Return(0),
          files |-> <<>>, warnings |-> <<>>]
    ELSE LET uploads == IF uex THEN L ELSE <<>>     \* _load_sumo_uploads
             idx == _get_next_index(M, uploads)
         IN  IF idx.raised # "none"
             THEN [raised |-> idx.raised, next_index |-> idx,
                   files |-> <<>>, warnings |-> <<>>]
             ELSE LET found == IF idx.value > Len(M) - 1 THEN <<>>
                               ELSE ExistingPaths(PySliceFrom(M, idx.value), d)
                  IN  [raised |-> "none", next_index |-> idx, files |-> found,
                       warnings |-> IF Len(found) = 0
                                    THEN <<"No files found!">> ELSE <<>>]

\* FileOnDisk(path): parse_yaml of the companion file raises when it is
\* missing, and the write of metadata["_sumo"] raises when it is no mapping
FileOnDisk(d, path) ==
    IF d[path] \in {"bare", "real"}
    THEN Return([path |-> path, meta |-> d[path]])
    ELSE Raise("Exception")

RECURSIVE add_files_loop(_, _, _, _)
add_files_loop(file_paths, d, staged, warns) ==
    IF file_paths = <<>> THEN [files |-> staged, warnings |-> warns]
    ELSE LET file == FileOnDisk(d, Head(file_paths)) IN
         IF file.raised = "none"
         THEN add_files_loop(Tail(file_paths), d, Append(staged, file.value), warns)
         ELSE add_files_loop(Tail(file_paths), d, staged,
                             Append(warns, "No metadata, skipping file"))

\* a slip: the staged list is rebuilt instead of extended
add_files_replace(self_files, file_paths, d) ==
    add_files_loop(file_paths, d, <<>>, <<>>)

\* a slip: a file without metadata ends the loop
add_files_stop(self_files, file_paths, d) ==
    LET bad == {i \in 1..Len(file_paths) : FileOnDisk(d, file_paths[i]).raised # "none"}
        upto == IF bad = {} THEN Len(file_paths)
                ELSE CHOOSE i \in bad : \A j \in bad : i <= j
    IN  add_files_loop(SubSeq(file_paths, 1, upto), d, self_files, <<>>)

\* the loop of add_files over the selected paths
add_files(self_files, file_paths, d) ==
    add_files_loop(file_paths, d, self_files, <<>>)

-----------------------------------------------------------------------------
(* _upload_files: the pre-pass *)

\* the FileOnJob built by get_parameter_file (path "")
paramfile == [path |-> 0, meta |-> "real"]

NoPrepass == [triggered |-> FALSE, param |-> "skipped", search |-> "skipped",
              appended |-> FALSE]

\* what the environment answers to the parameters step: get_parameter_file
\* gives None, a record or an exception; the search finds no parameters
\* object, one with the same hash, one with another hash, or fails
PrepassChoices ==
    {[param |-> "none", search |-> "skipped"],
     [param |-> "raise", search |-> "skipped"]}
    \cup {[param |-> "built", search |-> s] :
              s \in {"nohit", "same", "differs", "raise"}}

\* the same, and searches that find two parameters objects of the
\* realization, the one with the same hash second or first
PrepassChoicesManyHits ==
    PrepassChoices
    \cup {[param |-> "built", search |-> s] : s \in {"differs_same", "same_differs"}}

\* search_res["hits"]["hits"] of each answer: the blob_md5 of every hit,
\* "same" for the hash of the record just built
HitsOf == [nohit |-> <<>>, same |-> <<"same">>, differs |-> <<"other">>,
           differs_same |-> <<"other", "same">>,
           same_differs |-> <<"same", "other">>]

\* lines 160-166: no hit, or the first hit has another hash
ShouldAppend(hits) == Len(hits) = 0 \/ hits[1] # "same"

\* lines 129-170: [raised, files (the batch), prepass]
_upload_files_prepass(batch, ch) ==
    IF \E i \in 1..Len(batch) : batch[i].meta = "real"
    THEN IF ch.param = "raise" \/ ch.search = "raise"
         THEN [raised |-> "Exception", files |-> batch,
               prepass |-> [triggered |-> TRUE, param |-> ch.param,
                            search |-> ch.search, appended |-> FALSE]]
         ELSE LET app == ch.param = "built" /\ ShouldAppend(HitsOf[ch.search])
              IN  [raised |-> "none",
                   files |-> IF app THEN Append(batch, paramfile) ELSE batch,
                   prepass |-> [triggered |-> TRUE, param |-> ch.param,
                                search |-> ch.search, appended |-> app]]
    ELSE [raised |-> "none", files |-> batch, prepass |-> NoPrepass]

-----------------------------------------------------------------------------
(* SumoFile.upload_to_sumo and upload_files *)

\* what one upload attempt meets: the case is there and both sub-uploads
\* pass ("ok"), the parent case is not found ("notfound"), the metadata is
\* refused ("invalid"), or a server or network error ("error")
Answers(reg) ==
    IF reg THEN {"ok", "invalid", "error"} ELSE {"notfound", "error"}

\* client_for_case(self._sumo_parent_id) and the posts under that parent:
\* Sumo finds the parent when the case object exists and the id is its id,
\* be it the uuid of the case metadata ("uuid") or the objectid Sumo gave
\* when the case was posted ("objectid")
ParentFound(reg, parent_id) == reg /\ parent_id \in {"uuid", "objectid"}

upload_to_sumo(file, answer) ==
    CASE answer = "ok" ->
            [file |-> file, status |-> "ok",
             metadata_upload_response_status_code |-> 200]
      [] answer = "notfound" ->
            [file |-> file, status |-> "rejected",
             metadata_upload_response_status_code |-> 404]
      [] answer = "invalid" ->
            [file |-> file, status |-> "rejected",
             metadata_upload_response_status_code |-> 400]
      [] answer = "error" ->
            [file |-> file, status |-> "failed",
             metadata_upload_response_status_code |-> 500]
      [] OTHER ->
            [file |-> file, status |-> "",
             metadata_upload_response_status_code |-> 0]

RECURSIVE WithStatus(_, _)
\* the results, in order, whose status is among `wanted`
WithStatus(res, wanted) ==
    IF res = <<>> THEN <<>>
    ELSE IF Head(res).status \in wanted
         THEN <<Head(res)>> \o WithStatus(Tail(res), wanted)
         ELSE WithStatus(Tail(res), wanted)

NoBuckets == [ok_uploads |-> <<>>, failed_uploads |-> <<>>,
              rejected_uploads |-> <<>>]

\* a slip: a result without status is passed over
upload_files_skip(res) ==
    LET known == {res[i].status : i \in 1..Len(res)} \ {""}
    IN  [raised |-> "none",
         buckets |-> [ok_uploads |-> WithStatus(res, {"ok"}),
                      rejected_uploads |-> WithStatus(res, {"rejected"}),
                      failed_uploads |->
                          WithStatus(res, known \ {"ok", "rejected"})]]

\* a slip: a rejected result is counted as failed as well
upload_files_overlap(res) ==
    IF \E i \in 1..Len(res) : res[i].status = ""
    THEN [raised |-> "ValueError", buckets |-> NoBuckets]
    ELSE [raised |-> "none",
          buckets |-> [ok_uploads |-> WithStatus(res, {"ok"}),
                       rejected_uploads |-> WithStatus(res, {"rejected"}),
                       failed_uploads |->
                           WithStatus(res, {res[i].status : i \in 1..Len(res)}
                                           \ {"ok"})]]

\* upload_files, lines 225-250: the classification of the results
upload_files(res) ==
    IF \E i \in 1..Len(res) : res[i].status = ""
    THEN [raised |-> "ValueError", buckets |-> NoBuckets]
    ELSE [raised |-> "none",
          buckets |-> [ok_uploads |-> WithStatus(res, {"ok"}),
                       rejected_uploads |-> WithStatus(res, {"rejected"}),
                       failed_uploads |->
                           WithStatus(res, {res[i].status : i \in 1..Len(res)}
                                           \ {"ok", "rejected"})]]

-----------------------------------------------------------------------------
(* SumoCase._update_sumo_uploads and SumoCase.upload *)

\* a slip: the entry names the number of records, not the last index
_update_sumo_uploads_len(mex, M, uex, L) ==
    IF ~mex THEN [raised |-> "FileNotFoundError", sumo_uploads |-> L]
    ELSE IF M = <<>> THEN [raised |-> "IndexError", sumo_uploads |-> L]
    ELSE [raised |-> "none",
          sumo_uploads |-> Append(IF uex THEN L ELSE <<>>,
                                  [last_index_manifest |-> Len(M),
                                   timestamp |-> M[Len(M)].exported_at])]

\* a slip: the file is written with the new entry alone
_update_sumo_uploads_rewrite(mex, M, uex, L) ==
    IF ~mex THEN [raised |-> "FileNotFoundError", sumo_uploads |-> L]
    ELSE IF M = <<>> THEN [raised |-> "IndexError", sumo_uploads |-> L]
    ELSE [raised |-> "none",
          sumo_uploads |-> <<[last_index_manifest |-> Len(M) - 1,
                              timestamp |-> M[Len(M)].exported_at]>>]

\* [raised, sumo_uploads (the content written)]
_update_sumo_uploads(mex, M, uex, L) ==
    IF ~mex THEN [raised |-> "FileNotFoundError", sumo_uploads |-> L]
    ELSE IF M = <<>>         \* manifest[-1] of an empty list
    THEN [raised |-> "IndexError", sumo_uploads |-> L]
    ELSE [raised |-> "none",
          sumo_uploads |-> Append(IF uex THEN L ELSE <<>>,
                                  [last_index_manifest |-> Len(M) - 1,
                                   timestamp |-> M[Len(M)].exported_at])]

\* a slip: the log is written after every upload
ShouldUpdateUploads_always(ok) == TRUE

\* line 155: if len(ok_uploads) > 0
ShouldUpdateUploads(ok) == Len(ok) > 0

\* a slip: one warning per rejected file
NotRegisteredWarnings_each(rejected) ==
    [i \in 1..Cardinality({j \in 1..Len(rejected) :
           rejected[j].metadata_upload_response_status_code = 404})
        |-> "Case is not registered on Sumo"]

\* lines 137-141
NotRegisteredWarnings(rejected) ==
    IF rejected # <<>>
       /\ \E i \in 1..Len(rejected) :
              rejected[i].metadata_upload_response_status_code \in {404}
    THEN <<"Case is not registered on Sumo">>
    ELSE <<>>

UploadOutcome(r, w, lg, self_files, batch, pp, res, b, uex, L, rc) ==
    [raised |-> r.raised, ret |-> r.value, warnings |-> w, logged |-> lg,
     files |-> self_files, files_to_upload |-> batch, prepass |-> pp,
     results |-> res, buckets |-> b, uploads_exists |-> uex,
     sumo_uploads |-> L, remote_calls |-> rc]

\* upload() from line 112 on: self_files are the staged files, ch and answers
\* what the environment answers to the pre-pass and to each upload attempt
upload_batch(self_files, mex, M, uex, L, ch, answers) ==
    LET batch == self_files                    \* files_to_upload = list(self.files)
        pp == _upload_files_prepass(batch, ch)
        rc0 == {"client_for_case"}
                 \cup (IF pp.prepass.triggered THEN {"prepass"} ELSE {})
    IN  IF pp.raised # "none"
        THEN UploadOutcome(Raise(pp.raised), <<>>, <<>>, self_files, pp.files,
                           pp.prepass, <<>>, NoBuckets, uex, L, rc0)
        ELSE
        LET res == [i \in 1..Len(pp.files) |->
                        upload_to_sumo(pp.files[i], answers[i])]
            cls == upload_files(res)
            rc == IF res = <<>> THEN rc0 ELSE rc0 \cup {"upload_to_sumo"}
        IN  IF cls.raised # "none"
            THEN UploadOutcome(Raise(cls.raised), <<>>, <<>>, self_files,
                               pp.files, pp.prepass, res, NoBuckets, uex, L, rc)
            ELSE
            LET b == cls.buckets
                w == NotRegisteredWarnings(b.rejected_uploads)
                upd == _update_sumo_uploads(mex, M, uex, L)
            IN  IF ~ShouldUpdateUploads(b.ok_uploads)
                THEN UploadOutcome(Return("ok_uploads"), w, <<>>, self_files,
                                   pp.files, pp.prepass, res, b, uex, L, rc)
                ELSE IF upd.raised # "none"
                THEN UploadOutcome(Raise(upd.raised), w, <<>>, self_files,
                                   pp.files, pp.prepass, res, b, uex, L, rc)
                ELSE UploadOutcome(Return("ok_uploads"), w, <<>>, self_files,
                                   pp.files, pp.prepass, res, b, TRUE,
                                   upd.sumo_uploads, rc)

\* a slip: the check for an empty staged list is missing
upload_unguarded(self_files, mex, M, uex, L, ch, answers) ==
    upload_batch(self_files, mex, M, uex, L, ch, answers)

\* upload(): lines 107-110, then the rest
upload(self_files, mex, M, uex, L, ch, answers) ==
    IF self_files = <<>>
    THEN UploadOutcome(Return("{}"), <<>>, <<"No files to upload.">>,
                       self_files, <<>>, NoPrepass, <<>>, NoBuckets, uex, L, {})
    ELSE upload_batch(self_files, mex, M, uex, L, ch, answers)

-----------------------------------------------------------------------------
(* The state machine *)

\* upload(self, threads=4)
DefaultThreads == 4

\* no upload() is under way: no pool, no task, nothing recorded
NoPool ==
    /\ threads = DefaultThreads /\ scan = 0 /\ tasks = <<>>
    /\ reordered = FALSE /\ events = {}

\* SumoCase.__init__: the parent id is the uuid of the case metadata, the
\* mode is the default; nothing is known of the realization's objects
NewObject ==
    /\ sumo_parent_id = "uuid" /\ registration = "none" /\ sumo_mode = "copy"
    /\ sumo_objects = {} /\ classes = {}

\* no single file and no case metadata is looked at
NoObject == [exists |-> FALSE]
NoData == [t |-> "none"]
NoUnits ==
    /\ file_bytes = <<>> /\ file_metadata = [fmu |-> 1] /\ file_object = NoObject
    /\ case_metadata_arg = NoData /\ case_metadata = NoData
    /\ sanitize_calls = 0

\* no invocation has uploaded anything
NoHistory == history = [phase |-> "new", uploaded |-> [p \in 1..MaxExports |-> 0]]

NoIndex == [raised |-> "unset", value |-> 0]
NoPre == [files |-> <<>>, uploads_exists |-> FALSE, sumo_uploads |-> <<>>,
          synced |-> FALSE]
Snapshot == [files |-> files, uploads_exists |-> uploads_exists,
             sumo_uploads |-> sumo_uploads, synced |-> synced]

Paths == 1..MaxExports
MetaKinds == {"nofile", "nometa", "bare", "real"}

Init ==
    /\ manifest_exists = FALSE /\ manifest = <<>>
    /\ uploads_exists = FALSE /\ sumo_uploads = <<>>
    /\ disk = [p \in Paths |-> "nofile"]
    /\ clock = 0
    /\ registered = FALSE
    /\ files = <<>>
    /\ pc = "idle" /\ call = "none" /\ raised = "none" /\ ret = "none"
    /\ warnings = <<>> /\ logged = <<>>
    /\ next_index = NoIndex /\ selected = <<>>
    /\ files_to_upload = <<>> /\ prepass = NoPrepass /\ results = <<>>
    /\ buckets = NoBuckets /\ remote_calls = {}
    /\ synced = FALSE /\ pre = NoPre
    /\ NoPool /\ NewObject /\ NoHistory /\ NoUnits

env_vars == <<manifest_exists, manifest, disk, clock>>
pool_vars == <<threads, scan, tasks, reordered, events>>
object_vars == <<sumo_parent_id, registration, sumo_mode>>
ensure_vars == <<sumo_objects, classes>>
unit_vars == <<file_bytes, file_metadata, file_object, case_metadata_arg,
               case_metadata, sanitize_calls>>
upload_locals == <<files_to_upload, prepass, results, buckets, remote_calls>>
add_locals == <<next_index, selected>>

\* fmu-dataio exports one more file: the file (with or without its data and
\* metadata) and one more record at the end of the manifest
Export ==
    /\ pc = "idle" /\ clock < MaxExports
    /\ \E kind \in MetaKinds :
          disk' = [disk EXCEPT ![clock + 1] = kind]
    /\ manifest_exists' = TRUE
    /\ manifest' = Append(manifest, [absolute_path |-> clock + 1,
                                     exported_at |-> clock + 1])
    /\ clock' = clock + 1
    /\ synced' = FALSE
    /\ UNCHANGED <<pool_vars, object_vars, ensure_vars, history, unit_vars>>
    /\ UNCHANGED <<uploads_exists, sumo_uploads, registered, files, pc, call,
                   raised, ret, warnings, logged, add_locals, upload_locals, pre>>

\* the manifest is overwritten by a new run that exports the first file again
Regenerate ==
    /\ pc = "idle" /\ clock < MaxExports /\ manifest # <<>>
    /\ manifest' = <<[absolute_path |-> manifest[1].absolute_path,
                      exported_at |-> clock + 1]>>
    /\ clock' = clock + 1
    /\ synced' = FALSE
    /\ UNCHANGED <<pool_vars, object_vars, ensure_vars, history, unit_vars>>
    /\ UNCHANGED <<manifest_exists, disk, uploads_exists, sumo_uploads,
                   registered, files, pc, call, raised, ret, warnings, logged,
                   add_locals, upload_locals, pre>>

\* CaseOnDisk.register, as far as the remote case object goes; a case that
\* is registered stays registered
Register ==
    /\ pc = "idle" /\ ~registered
    /\ \E accepted \in BOOLEAN :
          /\ registered' = accepted
          /\ ret' = IF accepted THEN "objectid" ELSE "0"
          /\ warnings' = IF accepted THEN <<>>
                         ELSE <<"Registering case on Sumo failed">>
    /\ pc' = "returned" /\ call' = "register" /\ raised' = "none"
    /\ pre' = Snapshot
    /\ UNCHANGED <<pool_vars, object_vars, ensure_vars, history, unit_vars>>
    /\ UNCHANGED <<env_vars, uploads_exists, sumo_uploads, files, logged,
                   add_locals, upload_locals, synced>>

\* a new CaseOnDisk object for the same case (a new invocation)
NewCase ==
    /\ pc = "idle" /\ files # <<>>
    /\ files' = <<>>
    /\ UNCHANGED <<pool_vars, object_vars, ensure_vars, history, unit_vars>>
    /\ UNCHANGED <<env_vars, uploads_exists, sumo_uploads, registered, pc, call,
                   raised, ret, warnings, logged, add_locals, upload_locals,
                   synced, pre>>

AddFilesStep ==
    /\ pc = "idle"
    /\ LET found == _find_file_paths(manifest_exists, manifest, uploads_exists,
                                     sumo_uploads, disk)
           added == add_files(files, found.files, disk)
       IN  /\ next_index' = found.next_index
           /\ selected' = found.files
           /\ raised' = found.raised
           /\ IF found.raised # "none"
              THEN files' = files /\ warnings' = <<>>
              ELSE /\ Len(added.files) <= MaxStaged
                   /\ files' = added.files
                   /\ warnings' = found.warnings \o added.warnings
    /\ pc' = "returned" /\ call' = "add_files" /\ ret' = "None"
    /\ pre' = Snapshot
    /\ UNCHANGED <<pool_vars, object_vars, ensure_vars, unit_vars>>
    /\ UNCHANGED <<env_vars, uploads_exists, sumo_uploads, registered, logged,
                   upload_locals, synced>>

AddFiles == AddFilesStep /\ UNCHANGED history

UploadStep ==
    /\ pc = "idle" /\ Len(sumo_uploads) < MaxLedger
    /\ \E ch \in PrepassChoices :
       \E answers \in [1..(Len(files) + 1) ->
                            Answers(ParentFound(registered, sumo_parent_id))] :
          LET out == upload(files, manifest_exists, manifest, uploads_exists,
                            sumo_uploads, ch, answers)
          IN  /\ raised' = out.raised /\ ret' = out.ret
              /\ warnings' = out.warnings /\ logged' = out.logged
              /\ files_to_upload' = out.files_to_upload
              /\ prepass' = out.prepass /\ results' = out.results
              /\ buckets' = out.buckets /\ remote_calls' = out.remote_calls
              /\ uploads_exists' = out.uploads_exists
              /\ sumo_uploads' = out.sumo_uploads
              /\ files' = out.files
              /\ synced' = IF out.sumo_uploads # sumo_uploads THEN TRUE ELSE synced
    /\ pc' = "returned" /\ call' = "upload"
    /\ pre' = Snapshot
    /\ UNCHANGED <<pool_vars, object_vars, ensure_vars, unit_vars>>
    /\ UNCHANGED <<env_vars, registered, add_locals>>

Upload == UploadStep /\ UNCHANGED history

\* the call is over: its locals, its warnings and its result are gone
ReturnToCaller ==
    /\ pc = "returned"
    /\ pc' = "idle" /\ call' = "none" /\ raised' = "none" /\ ret' = "none"
    /\ warnings' = <<>> /\ logged' = <<>>
    /\ next_index' = NoIndex /\ selected' = <<>>
    /\ files_to_upload' = <<>> /\ prepass' = NoPrepass /\ results' = <<>>
    /\ buckets' = NoBuckets /\ remote_calls' = {}
    /\ pre' = NoPre
    /\ UNCHANGED <<pool_vars, object_vars, ensure_vars, history, unit_vars>>
    /\ UNCHANGED <<env_vars, uploads_exists, sumo_uploads, registered, files,
                   synced>>

Next ==
    \/ Export
    \/ Regenerate
    \/ Register
    \/ NewCase
    \/ AddFiles
    \/ Upload
    \/ ReturnToCaller

Spec == Init /\ [][Next]_vars

-----------------------------------------------------------------------------
(* Claims about the cycles of add_files() and upload(), under Spec *)

AddCalled == pc = "returned" /\ call = "add_files"
UploadCalled == pc = "returned" /\ call = "upload"

\* how many times message m is in the sequence ws
Count(ws, m) == Cardinality({i \in 1..Len(ws) : ws[i] = m})

LogGrew == sumo_uploads # pre.sumo_uploads
LastManifestEntry ==
    [last_index_manifest |-> Len(manifest) - 1,
     timestamp |-> manifest[Len(manifest)].exported_at]

\* C3: an upload() with at least one 'ok' result adds exactly one entry to the
\* uploads log; an upload() with none leaves the log as it was and does not
\* create the file.
C3_OneEntryPerOkCycle ==
    UploadCalled =>
        IF buckets.ok_uploads # <<>>
        THEN /\ uploads_exists
             /\ Len(sumo_uploads) = Len(pre.sumo_uploads) + 1
        ELSE /\ sumo_uploads = pre.sumo_uploads
             /\ uploads_exists = pre.uploads_exists

\* a second successful cycle: the log goes from one entry to two
C3_Witness ==
    /\ UploadCalled /\ buckets.ok_uploads # <<>>
    /\ Len(pre.sumo_uploads) = 1 /\ Len(sumo_uploads) = 2

\* C4: the entry a cycle appends names the last record of the manifest and
\* carries its exported_at, whatever was staged, skipped, rejected or failed.
C4_EntryNamesLastManifestRecord ==
    (UploadCalled /\ LogGrew) =>
        /\ sumo_uploads[Len(sumo_uploads)] = LastManifestEntry
        /\ manifest[sumo_uploads[Len(sumo_uploads)].last_index_manifest + 1].exported_at
             = sumo_uploads[Len(sumo_uploads)].timestamp

\* one file 'ok', one failed, and a manifest record that was never staged:
\* the entry still names the last record
C4_Witness ==
    /\ UploadCalled /\ LogGrew
    /\ buckets.ok_uploads # <<>> /\ buckets.failed_uploads # <<>>
    /\ Len(manifest) = 2
    /\ \E i \in 1..Len(manifest) :
          \A j \in 1..Len(results) : results[j].file.path # manifest[i].absolute_path

\* C5: right after a cycle that wrote the log, with the manifest unchanged,
\* add_files() finds the next index at the end of the manifest, selects and
\* stages nothing and warns 'No files found!' without raising.
C5_NothingNewAfterCycle ==
    (AddCalled /\ pre.synced) =>
        /\ next_index = Return(Len(manifest))
        /\ selected = <<>>
        /\ files = pre.files
        /\ warnings = <<"No files found!">>
        /\ raised = "none"

C5_Witness ==
    /\ AddCalled /\ pre.synced /\ Len(manifest) = 2
    /\ \A p \in Paths : disk[p] = "real"

\* C6: the first cycle wrote the entry for a 1-record manifest, the manifest
\* grew to 2 records and add_files() staged the new file: the upload() that
\* follows uploads the new file only, not the file of record 0 again, and a
\* successful one leaves a second entry with last_index_manifest = 1.
C6_SecondCycleUploadsOnlyNewFile ==
    (/\ UploadCalled /\ registered
     /\ Len(manifest) = 2
     /\ pre.sumo_uploads = <<[last_index_manifest |-> 0,
                              timestamp |-> manifest[1].exported_at]>>
     /\ \E i \in 1..Len(files) : files[i].path = manifest[2].absolute_path)
    => /\ \A j \in 1..Len(results) :
             results[j].file.path # manifest[1].absolute_path
       /\ buckets.ok_uploads # <<>> =>
             /\ Len(sumo_uploads) = 2
             /\ sumo_uploads[2].last_index_manifest = 1

RECURSIVE StagedOf(_, _)
\* the records FileOnDisk builds for the paths that have metadata, in order
StagedOf(paths, d) ==
    IF paths = <<>> THEN <<>>
    ELSE IF d[Head(paths)] \in {"bare", "real"}
         THEN <<[path |-> Head(paths), meta |-> d[Head(paths)]]>>
              \o StagedOf(Tail(paths), d)
         ELSE StagedOf(Tail(paths), d)

\* C7: add_files() extends the staged list by the newly selected records and
\* keeps what was staged; upload() leaves the staged list as it was.
C7_StagedListOnlyGrows ==
    /\ (AddCalled /\ raised = "none") =>
          /\ Len(files) >= Len(pre.files)
          /\ SubSeq(files, 1, Len(pre.files)) = pre.files
          /\ SubSeq(files, Len(pre.files) + 1, Len(files)) = StagedOf(selected, disk)
    /\ UploadCalled => files = pre.files

\* one file staged by the first cycle, one more by the second add_files()
C7_Witness ==
    /\ AddCalled /\ Len(pre.files) = 1 /\ Len(selected) = 1 /\ Len(files) = 2
    /\ uploads_exists

\* C8: when every metadata upload of the call is answered 404, every result
\* is 'rejected', the call warns 'Case is not registered on Sumo' once,
\* raises nothing and writes no log entry; without a rejected result that
\* carries 404 the warning is not given.
C8_UnregisteredCaseRejected ==
    /\ (/\ UploadCalled /\ results # <<>>
        /\ \A i \in 1..Len(results) :
              results[i].metadata_upload_response_status_code = 404)
       => /\ raised = "none"
          /\ \A i \in 1..Len(results) : results[i].status = "rejected"
          /\ buckets.rejected_uploads = results
          /\ buckets.ok_uploads = <<>> /\ buckets.failed_uploads = <<>>
          /\ warnings = <<"Case is not registered on Sumo">>
          /\ sumo_uploads = pre.sumo_uploads
          /\ uploads_exists = pre.uploads_exists
    /\ UploadCalled =>
          Count(warnings, "Case is not registered on Sumo") =
             IF \E i \in 1..Len(buckets.rejected_uploads) :
                   buckets.rejected_uploads[i].metadata_upload_response_status_code = 404
             THEN 1 ELSE 0

\* two files, both answered 404, no log file before or after
C8_Witness ==
    /\ UploadCalled /\ ~registered /\ Len(results) >= 2
    /\ \A i \in 1..Len(results) :
          results[i].metadata_upload_response_status_code = 404
    /\ ~uploads_exists

\* the selected paths whose companion metadata is missing or not parseable
NoMetadata(paths, d) == {i \in 1..Len(paths) : d[paths[i]] \notin {"bare", "real"}}

\* C9: with N selected files of which K have no usable metadata, add_files()
\* raises nothing, warns 'No metadata, skipping file' K times and stages the
\* other N - K in manifest order; the upload() that follows attempts every
\* staged file.
C9_FilesWithoutMetadataSkipped ==
    /\ (AddCalled /\ manifest_exists) =>
          /\ raised = "none"
          /\ Count(warnings, "No metadata, skipping file")
               = Cardinality(NoMetadata(selected, disk))
          /\ Len(files) = Len(pre.files) + Len(selected)
                            - Cardinality(NoMetadata(selected, disk))
          /\ SubSeq(files, Len(pre.files) + 1, Len(files)) = StagedOf(selected, disk)
    /\ (UploadCalled /\ raised = "none") =>
          /\ Len(results) >= Len(files)
          /\ \A i \in 1..Len(files) : results[i].file = files[i]

\* two files selected, the first without metadata: one warning, one staged
C9_Witness ==
    /\ AddCalled /\ Len(selected) = 2
    /\ NoMetadata(selected, disk) = {1}
    /\ Len(files) = 1 /\ files[1].path = selected[2]

\* C10: upload() with nothing staged returns an empty result, logs a warning,
\* raises nothing, calls neither the Sumo client nor a worker and leaves the
\* log and the staged list as they were.
C10_UploadOfNothing ==
    (UploadCalled /\ pre.files = <<>>) =>
        /\ ret = "{}" /\ raised = "none"
        /\ logged = <<"No files to upload.">> /\ warnings = <<>>
        /\ remote_calls = {}
        /\ results = <<>> /\ files_to_upload = <<>>
        /\ files = <<>>
        /\ sumo_uploads = pre.sumo_uploads
        /\ uploads_exists = pre.uploads_exists

\* as in the test: the manifest lists a file that does not exist
C10_Witness ==
    /\ UploadCalled /\ pre.files = <<>>
    /\ manifest # <<>> /\ registered

-----------------------------------------------------------------------------
(* _get_next_index on its own: every manifest and every uploads log of the  *)
(* bounded input sets, also logs and manifests this program never writes   *)
(* (a missing key, an index outside the manifest)                          *)

RECURSIVE SeqsUpTo(_, _)
\* the sequences over S of length 0..n
SeqsUpTo(S, n) ==
    IF n = 0 THEN {<<>>}
    ELSE LET shorter == SeqsUpTo(S, n - 1)
         IN  shorter \cup {Append(q, x) : q \in shorter, x \in S}

TimestampsIn == {1, 2}
ManifestRecIn ==
    {[absolute_path |-> 1, exported_at |-> t] : t \in TimestampsIn}
    \cup {[absolute_path |-> 1]}
ManifestInputs == SeqsUpTo(ManifestRecIn, MaxManifestIn)

IndexIn == (0 - (MaxManifestIn + 1))..(MaxManifestIn + 2)
LastEntryIn ==
    {[last_index_manifest |-> i, timestamp |-> t] : i \in IndexIn, t \in TimestampsIn}
    \cup {[timestamp |-> t] : t \in TimestampsIn}
    \cup {[last_index_manifest |-> i] : i \in IndexIn}
PrefixEntryIn ==
    {[last_index_manifest |-> i, timestamp |-> t] : i \in {0, 1}, t \in TimestampsIn}
LedgerInputs ==
    {<<>>} \cup {Append(q, e) : q \in SeqsUpTo(PrefixEntryIn, MaxLedgerPrefix),
                                e \in LastEntryIn}

InitIndex ==
    /\ manifest_exists = TRUE /\ manifest \in ManifestInputs
    /\ uploads_exists = TRUE /\ sumo_uploads \in LedgerInputs
    /\ disk = [p \in Paths |-> "nofile"]
    /\ clock = 0
    /\ registered = FALSE
    /\ files = <<>>
    /\ pc = "idle" /\ call = "none" /\ raised = "none" /\ ret = "none"
    /\ warnings = <<>> /\ logged = <<>>
    /\ next_index = NoIndex /\ selected = <<>>
    /\ files_to_upload = <<>> /\ prepass = NoPrepass /\ results = <<>>
    /\ buckets = NoBuckets /\ remote_calls = {}
    /\ synced = FALSE /\ pre = NoPre
    /\ NoPool /\ NewObject /\ NoHistory /\ NoUnits

GetNextIndex ==
    /\ pc = "idle"
    /\ next_index' = _get_next_index(manifest, sumo_uploads)
    /\ raised' = next_index'.raised
    /\ pc' = "returned" /\ call' = "_get_next_index"
    /\ UNCHANGED <<pool_vars, object_vars, ensure_vars, history, unit_vars>>
    /\ UNCHANGED <<env_vars, uploads_exists, sumo_uploads, registered, files,
                   ret, warnings, logged, selected, upload_locals, synced, pre>>

NextIndex == GetNextIndex

SpecIndex == InitIndex /\ [][NextIndex]_vars

-----------------------------------------------------------------------------
(* Claims about _get_next_index, under SpecIndex *)

LastEntry == sumo_uploads[Len(sumo_uploads)]
IndexCalled == pc = "returned" /\ call = "_get_next_index"
WellFormedEntry(e) == HasKey(e, "last_index_manifest") /\ HasKey(e, "timestamp")

\* C1: with a non-empty manifest and a non-empty log whose last entry names a
\* position i of the manifest, _get_next_index returns i + 1 when the record
\* at i has the entry's timestamp and 0 when it has another one; a log with
\* the same last entry and other earlier entries gives the same result.
C1_NextIndexOfLastEntry ==
    (/\ IndexCalled
     /\ manifest # <<>> /\ sumo_uploads # <<>>
     /\ WellFormedEntry(LastEntry)
     /\ LastEntry.last_index_manifest \in 0..(Len(manifest) - 1)
     /\ HasKey(manifest[LastEntry.last_index_manifest + 1], "exported_at"))
    => /\ next_index =
            IF manifest[LastEntry.last_index_manifest + 1].exported_at
                   = LastEntry.timestamp
            THEN Return(LastEntry.last_index_manifest + 1)
            ELSE Return(0)
       /\ \A L \in LedgerInputs :
             (L # <<>> /\ L[Len(L)] = LastEntry)
             => _get_next_index(manifest, L) = next_index

\* a two-entry log whose last entry matches record 1 of the manifest and
\* whose first entry names another position: the result is 2
C1_Witness ==
    /\ IndexCalled
    /\ Len(sumo_uploads) = 2 /\ WellFormedEntry(LastEntry)
    /\ LastEntry.last_index_manifest = 1
    /\ sumo_uploads[1].last_index_manifest = 0
    /\ Len(manifest) = 3
    /\ next_index = Return(2)

\* C2: with a non-empty manifest and a non-empty log, if the last entry's
\* index is no valid position of the manifest (too large, or negative), or a
\* key is missing from the last entry or from the indexed manifest record,
\* _get_next_index returns 0 and raises nothing.
C2_LookupFailureGivesZero ==
    (/\ IndexCalled
     /\ manifest # <<>> /\ sumo_uploads # <<>>
     /\ \/ ~WellFormedEntry(LastEntry)
        \/ LastEntry.last_index_manifest \notin 0..(Len(manifest) - 1)
        \/ ~HasKey(manifest[LastEntry.last_index_manifest + 1], "exported_at"))
    => next_index = Return(0)

-----------------------------------------------------------------------------
(* One call of upload() step by step: the loop of _upload_files over the   *)
(* batch, the worker pool and its tasks, the loop of upload_files over the *)
(* results and the rest of upload().  pc is where the calling thread is:   *)
(* "called", "scan", "ensure", "param", "fanout", "join", "finish",        *)
(* "returned".                                                             *)

\* threads values a caller passes besides the default
MaxThreads == 2
ThreadsIn == (1..MaxThreads) \cup {DefaultThreads}

\* a slip: the pre-pass is handed to the pool
CallingThread_pool == "worker"

\* the thread that runs upload() and everything it calls outside the pool
CallingThread == "main"

Event(what, by, at) == [what |-> what, by |-> by, at |-> at]

RemoteClasses == {"realization", "ensemble"}
NoFail == [at |-> "none", err |-> "none"]
EnsureFailures ==
    {NoFail} \cup {[at |-> a, err |-> e] :
                      a \in {"search", "post_ensemble", "post_realization"},
                      e \in {"HTTPStatusError", "Exception"}}

\* found: the classes the search finds; fail: where a call fails;
\* [raised, calls (the calls to the client, in order), created (the classes
\* of the objects the posts made)]
maybe_upload_realization_and_ensemble(found, fail) ==
    IF fail.at = "search"
    THEN [raised |-> fail.err, calls |-> <<"post_search">>, created |-> {}]
    ELSE IF "realization" \in found
    THEN [raised |-> "none", calls |-> <<"post_search">>, created |-> {}]
    ELSE IF "ensemble" \notin found
    THEN IF fail.at = "post_ensemble"
         THEN [raised |-> fail.err, calls |-> <<"post_search", "post_ensemble">>,
               created |-> {}]
         ELSE IF fail.at = "post_realization"
         THEN [raised |-> fail.err,
               calls |-> <<"post_search", "post_ensemble", "post_realization">>,
               created |-> {"ensemble"}]
         ELSE [raised |-> "none",
               calls |-> <<"post_search", "post_ensemble", "post_realization">>,
               created |-> {"ensemble", "realization"}]
    ELSE IF fail.at = "post_realization"
    THEN [raised |-> fail.err, calls |-> <<"post_search", "post_realization">>,
          created |-> {}]
    ELSE [raised |-> "none", calls |-> <<"post_search", "post_realization">>,
          created |-> {"realization"}]

\* a slip: the handlers log and raise again
ensure_step_reraise(res) ==
    [raised |-> res.raised,
     logged |-> IF res.raised = "none" THEN <<>>
                ELSE <<"Metadata upload exception">>]

\* the try/except around maybe_upload_realization_and_ensemble
ensure_step(res) ==
    [raised |-> "none",
     logged |-> IF res.raised = "HTTPStatusError"
                THEN <<"Metadata upload status error exception">>
                ELSE IF res.raised # "none"
                THEN <<"Metadata upload exception">>
                ELSE <<>>]

\* "fmu" in file.metadata and "realization" in file.metadata["fmu"]
Qualifies(file) == file.meta = "real"

\* the first position >= from of a qualifying record, 0 when there is none
NextQualifying(batch, from) ==
    LET q == {i \in from..Len(batch) : Qualifies(batch[i])}
    IN  IF q = {} THEN 0 ELSE CHOOSE i \in q : \A j \in q : i <= j

\* a slip: no break, the loop goes on with the next record
AfterPrepass_continue(batch, i) == i + 1

\* the break at the end of the if-block: the loop is over
AfterPrepass(batch, i) == Len(batch) + 1

\* the task of one batch position: "queued", "running" or "done"
NoOutcome == [raised |-> "unset", value |-> 0]
NewTask(file) == [file |-> file, state |-> "queued", attempts |-> 0,
                  outcome |-> NoOutcome]

\* executor.map(_upload_file, [... for file in files]): one task for each
\* position of the batch, queued in this order
executor_map(batch) == [i \in 1..Len(batch) |-> NewTask(batch[i])]

Running(tk) == {i \in 1..Len(tk) : tk[i].state = "running"}

\* a slip: every queued task gets a thread of its own
WorkerFree_unbounded(tk, t) == TRUE

\* ThreadPoolExecutor(threads): a task starts when one of the workers is idle
WorkerFree(tk, t) == Cardinality(Running(tk)) < t

\* what an upload attempt meets: as Answers, or upload_to_sumo gives a
\* result without status ("nostatus"), or the task raises ("raise")
TaskAnswers == {"ok", "invalid", "error", "nostatus", "raise"}

\* the modes a caller passes, and str.lower() of them
ModesIn == {"copy", "move", "moVE"}
Lower == [copy |-> "copy", move |-> "move", moVE |-> "move"]

\* a slip: the mode is compared as it was given
local_files_after_exact(d, file, outcome, mode) ==
    IF /\ outcome.raised = "none" /\ outcome.value.status = "ok"
       /\ mode = "move" /\ file.path \in DOMAIN d
    THEN [d EXCEPT ![file.path] = "nofile"]
    ELSE d

\* upload_to_sumo in mode 'move' deletes the data file and its metadata
\* file after an upload that ended 'ok'
local_files_after(d, file, outcome, mode) ==
    IF /\ outcome.raised = "none" /\ outcome.value.status = "ok"
       /\ Lower[mode] = "move" /\ file.path \in DOMAIN d
    THEN [d EXCEPT ![file.path] = "nofile"]
    ELSE d

\* _upload_file: nothing is caught around upload_to_sumo and result["file"]
_upload_file(file, answer) ==
    IF answer = "raise" THEN Raise("Exception")
    ELSE Return(upload_to_sumo(file, answer))

\* a slip: a task that did not end 'ok' is queued again
AfterTask_retry(outcome) ==
    IF outcome.raised = "none" /\ outcome.value.status \in {"failed", "rejected"}
    THEN "queued" ELSE "done"

\* _upload_file returns its result (or raises) and the task is over
AfterTask(outcome) == "done"

\* a slip: the results are taken without waiting for the pool
PoolJoined_nowait(tk) == TRUE

\* the end of the with-block: shutdown(wait=True)
PoolJoined(tk) == \A i \in 1..Len(tk) : tk[i].state = "done"

\* for r in results: the results come in the order of submission, and the
\* exception of a task is raised again when its turn comes;
\* [raised, results (the results the loop got)]
iterate_results(tk) ==
    LET done == SelectSeq(tk, LAMBDA t : t.state = "done")
        raisedAt == {i \in 1..Len(done) : done[i].outcome.raised # "none"}
        first == IF raisedAt = {} THEN 0
                 ELSE CHOOSE i \in raisedAt : \A j \in raisedAt : i <= j
        upto == IF first = 0 THEN Len(done) ELSE first - 1
    IN  [raised |-> IF first = 0 THEN "none" ELSE done[first].outcome.raised,
         results |-> [i \in 1..upto |-> done[i].outcome.value]]

\* staged files of one upload() call
MaxBatch == MaxExports

\* the staged files 1..n with the given kinds of metadata
FilesFrom(kinds) == [i \in 1..Len(kinds) |-> [path |-> i, meta |-> kinds[i]]]

\* upload() is called on a registered case: the staged files are those of
\* the manifest, the uploads log does not exist yet
InitCall(F, T, Modes, Objects) ==
    /\ files \in F /\ threads \in T
    /\ sumo_mode \in Modes /\ sumo_objects \in Objects
    /\ sumo_parent_id = "uuid" /\ registration = "none" /\ classes = {}
    /\ NoHistory /\ NoUnits
    /\ manifest_exists = TRUE
    /\ manifest = [i \in 1..Len(files) |->
                      [absolute_path |-> i, exported_at |-> i]]
    /\ disk = [p \in Paths |-> IF p <= Len(files) THEN files[p].meta
                               ELSE "nofile"]
    /\ clock = Len(files)
    /\ uploads_exists = FALSE /\ sumo_uploads = <<>>
    /\ registered = TRUE
    /\ pc = "called" /\ call = "upload" /\ raised = "none" /\ ret = "none"
    /\ warnings = <<>> /\ logged = <<>>
    /\ next_index = NoIndex /\ selected = <<>>
    /\ files_to_upload = <<>> /\ prepass = NoPrepass /\ results = <<>>
    /\ buckets = NoBuckets /\ remote_calls = {}
    /\ synced = FALSE
    /\ pre = [files |-> files, uploads_exists |-> FALSE,
              sumo_uploads |-> <<>>, synced |-> FALSE]
    /\ scan = 0 /\ tasks = <<>> /\ reordered = FALSE /\ events = {}

\* what no step of upload() changes
call_frame == <<manifest_exists, manifest, clock, registered, files, call,
                add_locals, remote_calls, synced, pre, threads, object_vars,
                history, unit_vars>>

\* lines 107-121: the check for nothing staged, the copy of the staged list
\* and the client of the case
StartUpload ==
    /\ pc = "called"
    /\ IF files = <<>>
       THEN /\ logged' = <<"No files to upload.">>
            /\ ret' = "{}" /\ pc' = "returned"
            /\ UNCHANGED <<files_to_upload, scan, events>>
       ELSE /\ files_to_upload' = files
            /\ events' = events \cup {Event("client_for_case", CallingThread, 0)}
            /\ scan' = 1 /\ pc' = "scan"
            /\ UNCHANGED <<logged, ret>>
    /\ UNCHANGED <<disk, ensure_vars>>
    /\ UNCHANGED <<call_frame, uploads_exists, sumo_uploads, raised, warnings,
                   prepass, results, buckets, tasks, reordered>>

\* for file in files: up to the next qualifying record or the end
Scan ==
    /\ pc = "scan"
    /\ LET i == NextQualifying(files_to_upload, scan)
       IN  IF i = 0
           THEN pc' = "fanout" /\ scan' = Len(files_to_upload) + 1
           ELSE pc' = "ensure" /\ scan' = i
    /\ UNCHANGED <<disk, ensure_vars>>
    /\ UNCHANGED <<call_frame, uploads_exists, sumo_uploads, raised, ret,
                   warnings, logged, files_to_upload, prepass, results,
                   buckets, tasks, reordered, events>>

\* lines 133-151 for the record at scan
Ensure(In) ==
    /\ pc = "ensure"
    /\ \E fail \in In :
          LET res == maybe_upload_realization_and_ensemble(sumo_objects, fail)
              h == ensure_step(res)
          IN  /\ classes' = IF fail.at = "search" THEN {} ELSE sumo_objects
              /\ sumo_objects' = sumo_objects \cup res.created
              /\ events' = events
                     \cup {Event("maybe_upload_realization_and_ensemble",
                                 CallingThread, scan)}
                     \cup {Event(res.calls[k], CallingThread, scan) :
                               k \in 1..Len(res.calls)}
              /\ logged' = logged \o h.logged
              /\ raised' = h.raised
              /\ pc' = IF h.raised = "none" THEN "param" ELSE "returned"
    /\ UNCHANGED disk
    /\ UNCHANGED <<call_frame, uploads_exists, sumo_uploads, ret, warnings,
                   files_to_upload, prepass, results, buckets, scan, tasks,
                   reordered>>

\* lines 153-170 for the record at scan
Parameters(Ch) ==
    /\ pc = "param"
    /\ \E ch \in Ch :
          LET pp == _upload_files_prepass(files_to_upload, ch)
          IN  /\ prepass' = pp.prepass
              /\ files_to_upload' = pp.files
              /\ raised' = pp.raised
              /\ events' = events
                     \cup (IF ch.param = "built"
                           THEN {Event("get_search", CallingThread, scan)}
                           ELSE {})
              /\ IF pp.raised # "none"
                 THEN pc' = "returned" /\ scan' = scan
                 ELSE pc' = "scan" /\ scan' = AfterPrepass(pp.files, scan)
    /\ UNCHANGED <<disk, ensure_vars>>
    /\ UNCHANGED <<call_frame, uploads_exists, sumo_uploads, ret, warnings,
                   logged, results, buckets, tasks, reordered>>

\* lines 172-176: the pool is created and every item is submitted
Submit ==
    /\ pc = "fanout"
    /\ tasks' = executor_map(files_to_upload)
    /\ pc' = "join"
    /\ UNCHANGED <<disk, ensure_vars>>
    /\ UNCHANGED <<call_frame, uploads_exists, sumo_uploads, raised, ret,
                   warnings, logged, files_to_upload, prepass, results,
                   buckets, scan, reordered, events>>

\* a worker takes the task at the head of the queue
StartTask(i) ==
    /\ i \in 1..Len(tasks) /\ tasks[i].state = "queued"
    /\ \A j \in 1..(i - 1) : tasks[j].state # "queued"
    /\ WorkerFree(tasks, threads)
    /\ tasks' = [tasks EXCEPT ![i].state = "running",
                              ![i].attempts = tasks[i].attempts + 1]
    /\ events' = events \cup {Event("upload_to_sumo", "worker", 0)}
    /\ UNCHANGED <<disk, ensure_vars>>
    /\ UNCHANGED <<call_frame, uploads_exists, sumo_uploads, pc, raised, ret,
                   warnings, logged, files_to_upload, prepass, results,
                   buckets, scan, reordered>>

\* _upload_file of a running task ends
FinishTask(i, A) ==
    /\ i \in 1..Len(tasks) /\ tasks[i].state = "running"
    /\ \E a \in A :
          LET outcome == _upload_file(tasks[i].file, a)
          IN  /\ tasks' = [tasks EXCEPT ![i].state = AfterTask(outcome),
                                        ![i].outcome = outcome]
              /\ disk' = local_files_after(disk, tasks[i].file, outcome, sumo_mode)
    /\ reordered' = (reordered \/ \E j \in 1..(i - 1) : tasks[j].state # "done")
    /\ UNCHANGED ensure_vars
    /\ UNCHANGED <<call_frame, uploads_exists, sumo_uploads, pc, raised, ret,
                   warnings, logged, files_to_upload, prepass, results,
                   buckets, scan, events>>

\* _upload_files returns and upload_files goes through the results
Classify ==
    /\ pc = "join" /\ PoolJoined(tasks)
    /\ LET it == iterate_results(tasks)
           cls == upload_files(it.results)
           exc == IF cls.raised # "none" THEN cls.raised ELSE it.raised
       IN  /\ results' = it.results
           /\ raised' = exc
           /\ buckets' = IF exc = "none" THEN cls.buckets ELSE NoBuckets
           /\ pc' = IF exc = "none" THEN "finish" ELSE "returned"
    /\ UNCHANGED <<disk, ensure_vars>>
    /\ UNCHANGED <<call_frame, uploads_exists, sumo_uploads, ret, warnings,
                   logged, files_to_upload, prepass, scan, tasks, reordered,
                   events>>

LedgerAccess(by) == {Event("manifest_read", by, 0), Event("ledger_read", by, 0)}

\* upload() from line 133 on: the warning, the log and the summary
Finish ==
    /\ pc = "finish"
    /\ warnings' = NotRegisteredWarnings(buckets.rejected_uploads)
    /\ IF ShouldUpdateUploads(buckets.ok_uploads)
       THEN LET upd == _update_sumo_uploads(manifest_exists, manifest,
                                            uploads_exists, sumo_uploads)
            IN  IF upd.raised # "none"
                THEN /\ raised' = upd.raised /\ ret' = ret
                     /\ events' = events \cup LedgerAccess(CallingThread)
                     /\ UNCHANGED <<uploads_exists, sumo_uploads>>
                ELSE /\ raised' = raised /\ ret' = "ok_uploads"
                     /\ uploads_exists' = TRUE
                     /\ sumo_uploads' = upd.sumo_uploads
                     /\ events' = events \cup LedgerAccess(CallingThread)
                            \cup {Event("ledger_write", CallingThread, 0),
                                  Event("summary", CallingThread, 0)}
       ELSE /\ raised' = raised /\ ret' = "ok_uploads"
            /\ events' = events \cup {Event("summary", CallingThread, 0)}
            /\ UNCHANGED <<uploads_exists, sumo_uploads>>
    /\ pc' = "returned"
    /\ UNCHANGED <<disk, ensure_vars>>
    /\ UNCHANGED <<call_frame, logged, files_to_upload, prepass, results,
                   buckets, scan, tasks, reordered>>

\* the pool under every answer to the upload attempts, in mode 'copy'; the
\* pre-pass meets a case whose realization and ensemble exist and no failure
UniformFiles ==
    {FilesFrom([i \in 1..n |-> k]) : n \in 0..MaxBatch, k \in {"bare", "real"}}
EnsureInPool == {NoFail}
ParametersInPool ==
    {ch \in PrepassChoices : ch.param # "raise" /\ ch.search \notin {"raise", "differs"}}

InitPool == InitCall(UniformFiles, ThreadsIn, {"copy"}, {RemoteClasses})

NextPool ==
    \/ StartUpload
    \/ Scan
    \/ Ensure(EnsureInPool)
    \/ Parameters(ParametersInPool)
    \/ Submit
    \/ \E i \in 1..(MaxBatch + 1) : StartTask(i)
    \/ \E i \in 1..(MaxBatch + 1) : FinishTask(i, TaskAnswers)
    \/ Classify
    \/ Finish

SpecPool == InitPool /\ [][NextPool]_vars

\* the pre-pass under every answer to its calls, whichever of the two
\* objects exist; one worker, and upload attempts that end 'ok' or 'failed'
MixedFiles == {FilesFrom(k) : k \in SeqsUpTo({"bare", "real"}, MaxBatch)}
EnsureInPrepass == EnsureFailures

InitPrepass == InitCall(MixedFiles, {1}, {"copy"}, SUBSET RemoteClasses)

NextPrepass ==
    \/ StartUpload
    \/ Scan
    \/ Ensure(EnsureInPrepass)
    \/ Parameters(PrepassChoicesManyHits)
    \/ Submit
    \/ \E i \in 1..(MaxBatch + 1) : StartTask(i)
    \/ \E i \in 1..(MaxBatch + 1) : FinishTask(i, {"ok", "error"})
    \/ Classify
    \/ Finish

SpecPrepass == InitPrepass /\ [][NextPrepass]_vars

-----------------------------------------------------------------------------
(* Claims about the worker pool and the results, under SpecPool *)

Positions == 1..Len(tasks)
Happened(what) == \E e \in events : e.what = what

\* the task at position i is over and gave a result without status
NoStatus(i) ==
    /\ tasks[i].state = "done" /\ tasks[i].outcome.raised = "none"
    /\ tasks[i].outcome.value.status = ""
\* the task at position i is over and raised
TaskRaised(i) == tasks[i].state = "done" /\ tasks[i].outcome.raised # "none"
\* the task at position i is over and gave a result with this status
HasStatus(i, st) ==
    /\ tasks[i].state = "done" /\ tasks[i].outcome.raised = "none"
    /\ tasks[i].outcome.value.status = st

\* upload_files returned its buckets to upload()
Classified ==
    /\ tasks # <<>>
    /\ pc = "finish" \/ (pc = "returned" /\ raised = "none")

\* C11: when a result of the batch has no status, an error leaves upload()
\* (the ValueError of upload_files when no task raised): there are no
\* buckets, no return value, no entry in the uploads log and no summary,
\* whatever the other results are.
C11_NoStatusAbortsBatch ==
    /\ (UploadCalled /\ \E i \in Positions : NoStatus(i)) =>
          /\ raised # "none"
          /\ (\A i \in Positions : ~TaskRaised(i)) => raised = "ValueError"
          /\ buckets = NoBuckets /\ ret = "none"
          /\ sumo_uploads = pre.sumo_uploads
          /\ uploads_exists = pre.uploads_exists
          /\ ~Happened("ledger_write") /\ ~Happened("summary")
    /\ pc = "finish" => \A i \in Positions : ~NoStatus(i)

\* the loop had an 'ok' result in hand when it met the one without status
C11_Witness ==
    /\ UploadCalled /\ raised = "ValueError"
    /\ \E i, j \in Positions : j < i /\ NoStatus(i) /\ HasStatus(j, "ok")
    /\ \E i \in Positions : HasStatus(i, "failed")

BucketNames == {"ok_uploads", "rejected_uploads", "failed_uploads"}
BucketOf(st) ==
    IF st = "ok" THEN "ok_uploads"
    ELSE IF st = "rejected" THEN "rejected_uploads" ELSE "failed_uploads"
\* where in bucket b the results of this file are
InBucket(b, file) == {k \in 1..Len(buckets[b]) : buckets[b][k].file = file}
PositionOf(file) == CHOOSE i \in 1..Len(files_to_upload) : files_to_upload[i] = file

\* C12: when upload_files returns its buckets, every position of the batch
\* (the appended parameters record too) has one result with a status, which
\* is in the bucket of its status and in no other; the sizes of the buckets
\* add up to the size of the batch, and each bucket is in the order of the
\* batch whatever the order in which the tasks ended.
C12_ResultsPartitioned ==
    Classified =>
        /\ Len(tasks) = Len(files_to_upload)
        /\ \A i \in Positions :
              /\ tasks[i].outcome.raised = "none"
              /\ tasks[i].outcome.value.status # ""
              /\ \A b \in BucketNames :
                    Cardinality(InBucket(b, files_to_upload[i])) =
                       IF b = BucketOf(tasks[i].outcome.value.status)
                       THEN 1 ELSE 0
        /\ Len(buckets.ok_uploads) + Len(buckets.rejected_uploads)
              + Len(buckets.failed_uploads) = Len(files_to_upload)
        /\ \A b \in BucketNames : \A k \in 1..(Len(buckets[b]) - 1) :
              PositionOf(buckets[b][k].file) < PositionOf(buckets[b][k + 1].file)

\* three tasks that ended out of order, one for the parameters record, and
\* one result in each bucket
C12_Witness ==
    /\ Classified /\ reordered /\ prepass.appended
    /\ \A b \in BucketNames : Len(buckets[b]) = 1

\* the attempt of the task at position i met a server or network error or
\* a timeout, or the task raised
TaskFailed(i) == TaskRaised(i) \/ HasStatus(i, "failed")

\* C13: when the task of a file fails and every result has a status,
\* upload() returns without raising, every file of the batch had its upload
\* attempt, the files whose task failed are in failed_uploads and the
\* others are in the bucket of their status.
C13_TaskFailureIsolated ==
    (/\ UploadCalled /\ tasks # <<>>
     /\ \E i \in Positions : TaskFailed(i)
     /\ \A i \in Positions : ~NoStatus(i))
    => /\ raised = "none"
       /\ \A i \in Positions :
             /\ tasks[i].state = "done" /\ tasks[i].attempts = 1
             /\ Cardinality(InBucket(
                    IF TaskFailed(i) THEN "failed_uploads"
                    ELSE BucketOf(tasks[i].outcome.value.status),
                    tasks[i].file)) = 1

\* C14: never more than `threads` tasks are running; the pool has one task
\* for each position of the batch, for the file at that position; and when
\* _upload_files has returned every task is over.
C14_PoolBounded ==
    /\ Cardinality(Running(tasks)) <= threads
    /\ tasks # <<>> =>
          /\ Len(tasks) = Len(files_to_upload)
          /\ \A i \in Positions : tasks[i].file = files_to_upload[i]
    /\ pc \in {"finish", "returned"} =>
          \A i \in Positions : tasks[i].state = "done"

\* two workers busy and a third task waiting for one of them
C14_Witness ==
    /\ threads = 2 /\ Len(tasks) = 3
    /\ Cardinality(Running(tasks)) = 2
    /\ tasks[3].state = "queued"

LedgerKinds == {"manifest_read", "ledger_read", "ledger_write"}

\* C16: the manifest and the uploads log are read and written by the thread
\* that called upload() only, a worker does nothing but its upload attempt,
\* and when the files are accessed or the log has changed every task of the
\* pool is over.
C16_LedgerAfterFanOut ==
    /\ \A e \in events :
          /\ e.what \in LedgerKinds => e.by = "main"
          /\ e.by = "worker" => e.what = "upload_to_sumo"
    /\ (\/ \E e \in events : e.what \in LedgerKinds
        \/ sumo_uploads # pre.sumo_uploads
        \/ uploads_exists # pre.uploads_exists)
       => \A i \in Positions : tasks[i].state = "done"

\* the log was written after three tasks that ended out of order
C16_Witness ==
    /\ Happened("ledger_write") /\ Len(sumo_uploads) = 1
    /\ reordered /\ Len(tasks) = 3

-----------------------------------------------------------------------------
(* Claims about the pre-pass, under SpecPrepass *)

PrepassCalls ==
    {"maybe_upload_realization_and_ensemble", "post_search", "post_ensemble",
     "post_realization", "get_search"}
PrepassEvents == {e \in events : e.what \in PrepassCalls}
TaskStarted == \E i \in Positions : tasks[i].state # "queued"

\* C15: the calls of the pre-pass are made by the calling thread; once a
\* task has started the calling thread is past the pre-pass and the
\* submission, and no call of the pre-pass is made any more.
C15_PrepassBeforeFanOut ==
    /\ [](\A e \in PrepassEvents : e.by = "main")
    /\ [](TaskStarted => pc \in {"join", "finish", "returned"})
    /\ [][TaskStarted => PrepassEvents' = PrepassEvents]_vars

\* ensemble and realization were created and the parameters searched, and
\* now a task is running
C15_Witness ==
    /\ Happened("post_ensemble") /\ Happened("post_realization")
    /\ Happened("get_search")
    /\ \E i \in Positions : tasks[i].state = "running"

EnsureFailed ==
    \E k \in 1..Len(logged) :
        logged[k] \in {"Metadata upload status error exception",
                       "Metadata upload exception"}

C18_PrepassOnce ==
    /\ \A e \in PrepassEvents :
          NextQualifying(files, 1) # 0 /\ e.at = NextQualifying(files, 1)
    /\ Cardinality({e \in events :
                       e.what = "maybe_upload_realization_and_ensemble"}) <= 1
    /\ (pc \in {"fanout", "join", "finish"} /\ NextQualifying(files, 1) # 0)
          => Happened("maybe_upload_realization_and_ensemble")
    /\ files_to_upload \in {<<>>, files, Append(files, paramfile)}
    /\ NextQualifying(files, 1) = 0 =>
          /\ PrepassEvents = {} /\ ~prepass.triggered
          /\ files_to_upload \in {<<>>, files}

\* the second and the appended record have fmu.realization as well
C18_Witness ==
    /\ pc = "returned" /\ raised = "none"
    /\ Len(files) = 2 /\ \A i \in 1..2 : Qualifies(files[i])
    /\ files_to_upload = Append(files, paramfile)
    /\ Happened("get_search")

-----------------------------------------------------------------------------
(* Selection after an upload() with rejected or failed files, under Spec *)

\* what add_files() of a new invocation selects when the manifest and the
\* disk are as they are now and the uploads log is L
SelectedWith(uex, L) ==
    _find_file_paths(manifest_exists, manifest, uex, L, disk)
PathSelected(found, path) ==
    found.raised = "none" /\ \E k \in 1..Len(found.files) : found.files[k] = path

\* the files of this upload() whose result is 'rejected' or 'failed' and
\* which the log did not cover when upload() was called
Unfinished ==
    {r.file.path : r \in
        {buckets.rejected_uploads[k] : k \in 1..Len(buckets.rejected_uploads)}
        \cup {buckets.failed_uploads[k] : k \in 1..Len(buckets.failed_uploads)}}
    \cap {p \in Paths :
             PathSelected(SelectedWith(pre.uploads_exists, pre.sumo_uploads), p)}

\* C19 as stated: after an upload() every file that was rejected or failed
\* is selected by the next add_files() of a new invocation.
C19_UnfinishedSelectedAgain ==
    (UploadCalled /\ raised = "none") =>
        \A p \in Unfinished :
            PathSelected(SelectedWith(uploads_exists, sumo_uploads), p)

\* C19: after an upload() without any 'ok' result the log is as it was and
\* every file that was rejected or failed is selected by the next
\* add_files() of a new invocation; after an upload() with an 'ok' result
\* the next index is the length of the manifest and none of them is selected.
C19_UnfinishedSelectedAgainIfNoneOk ==
    (UploadCalled /\ raised = "none") =>
        \A p \in Unfinished :
            IF buckets.ok_uploads = <<>>
            THEN /\ sumo_uploads = pre.sumo_uploads
                 /\ PathSelected(SelectedWith(uploads_exists, sumo_uploads), p)
            ELSE /\ SelectedWith(uploads_exists, sumo_uploads).next_index
                       = Return(Len(manifest))
                 /\ ~PathSelected(SelectedWith(uploads_exists, sumo_uploads), p)

\* one file failed and one was rejected, none was 'ok': both are selected
\* again
C19_Witness ==
    /\ UploadCalled /\ raised = "none" /\ buckets.ok_uploads = <<>>
    /\ buckets.failed_uploads # <<>> /\ buckets.rejected_uploads # <<>>
    /\ Cardinality(Unfinished) = 2
    /\ \A p \in Unfinished :
          PathSelected(SelectedWith(uploads_exists, sumo_uploads), p)

-----------------------------------------------------------------------------
(* The realization and ensemble objects, under SpecPrepass *)

PostOf == [ensemble |-> "post_ensemble", realization |-> "post_realization"]
\* the realization/ensemble step was run and ended without an error
EnsureCompleted ==
    Happened("maybe_upload_realization_and_ensemble") /\ ~EnsureFailed

\* C29: when the realization/ensemble step ended without an error, the
\* ensemble and the realization both exist on Sumo, and a post was made for
\* exactly the ones the search did not find.
C29_BothExistAfterEnsure ==
    EnsureCompleted =>
        /\ RemoteClasses \subseteq sumo_objects
        /\ \A c \in RemoteClasses : c \notin classes <=> Happened(PostOf[c])

\* the search of the parameters step gave hits, one of them with the hash of
\* the record just built
SameHashFound ==
    \E k \in 1..Len(HitsOf[prepass.search]) : HitsOf[prepass.search][k] = "same"

\* C30: after a parameters step whose search answered, the parameters
\* record was appended to the batch exactly when it was built and no hit of
\* the search has its hash.
C30_AppendedIffNoSameHash ==
    (prepass.triggered /\ prepass.search \in DOMAIN HitsOf) =>
        (prepass.appended <=> (prepass.param = "built" /\ ~SameHashFound))

-----------------------------------------------------------------------------
(* CaseOnDisk.register and the calls after it *)

\* what the post of the case metadata and the request for the shared key
\* meet: both pass ("created"), the key is not made ("nokey"), the post is
\* answered 4xx ("refused") or 401/403 ("unauthorized"), or the call fails
\* otherwise ("error")
RegisterAnswers == {"created", "nokey", "refused", "unauthorized", "error"}
RegisterFailures == {"refused", "unauthorized", "error"}

\* a slip: the exception of the post leaves register()
register_reraise(answer, parent_id) ==
    IF answer \in RegisterFailures
    THEN [raised |-> IF answer = "error" THEN "Exception" ELSE "HTTPStatusError",
          ret |-> "none", parent_id |-> parent_id, warnings |-> <<>>,
          logged |-> <<>>]
    ELSE [raised |-> "none", ret |-> "objectid", parent_id |-> "objectid",
          warnings |-> <<>>,
          logged |-> IF answer = "nokey"
                     THEN <<"Unable to create shared access key">> ELSE <<>>]

\* a slip: the failure of the shared key fails the registration
register_keyfatal(answer, parent_id) ==
    IF answer \in RegisterFailures
    THEN [raised |-> "none", ret |-> "0", parent_id |-> parent_id,
          warnings |-> <<"Registering case on Sumo failed">>, logged |-> <<>>]
    ELSE IF answer = "nokey"
    THEN [raised |-> "none", ret |-> "0", parent_id |-> "objectid",
          warnings |-> <<"Registering case on Sumo failed">>, logged |-> <<>>]
    ELSE [raised |-> "none", ret |-> "objectid", parent_id |-> "objectid",
          warnings |-> <<>>, logged |-> <<>>]

\* CaseOnDisk.register: [raised, ret, parent_id (self._sumo_parent_id after
\* the call), warnings, logged]; "objectid" is the objectid of Sumo's
\* answer to the post of the case
register(answer, parent_id) ==
    IF answer \in RegisterFailures
    THEN [raised |-> "none", ret |-> "0", parent_id |-> parent_id,
          warnings |-> <<"Registering case on Sumo failed">>, logged |-> <<>>]
    ELSE [raised |-> "none", ret |-> "objectid", parent_id |-> "objectid",
          warnings |-> <<>>,
          logged |-> IF answer = "nokey"
                     THEN <<"Unable to create shared access key">> ELSE <<>>]

\* register() on a case that is on Sumo already or not
RegisterCase ==
    /\ pc = "idle"
    /\ \E answer \in RegisterAnswers :
          LET out == register(answer, sumo_parent_id)
          IN  /\ raised' = out.raised /\ ret' = out.ret
              /\ warnings' = out.warnings /\ logged' = out.logged
              /\ sumo_parent_id' = out.parent_id
              /\ registered' = (registered \/ answer \notin RegisterFailures)
              /\ registration' = IF answer \in RegisterFailures
                                 THEN "failed" ELSE "done"
    /\ pc' = "returned" /\ call' = "register"
    /\ pre' = Snapshot
    /\ UNCHANGED <<pool_vars, ensure_vars, sumo_mode, history, unit_vars>>
    /\ UNCHANGED <<env_vars, uploads_exists, sumo_uploads, files, add_locals,
                   upload_locals, synced>>

\* the manifest file is removed (the run directory is cleaned)
RemoveManifest ==
    /\ pc = "idle" /\ manifest_exists
    /\ manifest_exists' = FALSE /\ manifest' = <<>>
    /\ synced' = FALSE
    /\ UNCHANGED <<pool_vars, object_vars, ensure_vars, history, unit_vars>>
    /\ UNCHANGED <<disk, clock, uploads_exists, sumo_uploads, registered, files,
                   pc, call, raised, ret, warnings, logged, add_locals,
                   upload_locals, pre>>

\* a new CaseOnDisk object for a case that is on Sumo or not, in a run
\* directory with no manifest, an empty one or one of up to MaxExports
\* records whose files are on disk with their metadata, and with no uploads
\* log, an empty one or one with an entry for the first record
InitCase ==
    /\ manifest_exists \in BOOLEAN
    /\ \E n \in 0..MaxExports :
          /\ manifest = [k \in 1..n |-> [absolute_path |-> k, exported_at |-> k]]
          /\ disk = [p \in Paths |-> IF p <= n THEN "bare" ELSE "nofile"]
          /\ clock = n
    /\ ~manifest_exists => manifest = <<>>
    /\ uploads_exists \in BOOLEAN
    /\ sumo_uploads \in {<<>>, <<[last_index_manifest |-> 0, timestamp |-> 1]>>}
    /\ ~uploads_exists => sumo_uploads = <<>>
    /\ registered \in BOOLEAN
    /\ files = <<>>
    /\ pc = "idle" /\ call = "none" /\ raised = "none" /\ ret = "none"
    /\ warnings = <<>> /\ logged = <<>>
    /\ next_index = NoIndex /\ selected = <<>>
    /\ files_to_upload = <<>> /\ prepass = NoPrepass /\ results = <<>>
    /\ buckets = NoBuckets /\ remote_calls = {}
    /\ synced = FALSE /\ pre = NoPre
    /\ NoPool /\ NewObject /\ NoHistory /\ NoUnits

NextCase ==
    \/ RegisterCase
    \/ RemoveManifest
    \/ AddFiles
    \/ Upload
    \/ ReturnToCaller

SpecCase == InitCase /\ [][NextCase]_vars

RegisterCalled == pc = "returned" /\ call = "register"

\* C21: register() never raises; when the post of the case metadata fails
\* it warns 'Registering case on Sumo failed' and returns "0", otherwise it
\* returns the id without that warning; add_files() and upload() called
\* after a failed register() run as they do otherwise: add_files() raises
\* only for an absent manifest, upload() of staged files gives every file a
\* result.
C21_RegisterNeverRaises ==
    /\ RegisterCalled =>
          /\ raised = "none"
          /\ registration = "failed" =>
                ret = "0" /\ warnings = <<"Registering case on Sumo failed">>
          /\ registration = "done" => ret = "objectid" /\ warnings = <<>>
    /\ (AddCalled /\ registration = "failed" /\ manifest_exists) => raised = "none"
    /\ (UploadCalled /\ registration = "failed" /\ pre.files # <<>>
            /\ raised = "none") =>
          Len(results) >= Len(pre.files)
C21_Witness ==
    /\ UploadCalled /\ registration = "failed" /\ ~registered
    /\ raised = "none" /\ Len(results) = MaxExports

\* C22: after a failed register() the parent id of the object is "0", and an
\* upload() gives no file the status 'ok' and leaves the uploads log as it
\* was.
C22_SentinelRejectsAll ==
    (UploadCalled /\ registration = "failed" /\ pre.files # <<>>) =>
        /\ sumo_parent_id = "0"
        /\ \A i \in 1..Len(results) : results[i].status # "ok"
        /\ ~LogGrew

\* C25: add_files() with an empty or absent uploads log, or with an empty
\* manifest, gets next index 0 and no exception; with a manifest of one
\* record and no uploads log file a first add_files() selects and stages
\* that record's file, and an upload() with an 'ok' result leaves an uploads
\* log of exactly one entry, with last_index_manifest 0.
C25_EmptyLedgerStartsAtZero ==
    /\ (AddCalled /\ manifest_exists /\ (sumo_uploads = <<>> \/ manifest = <<>>)) =>
          raised = "none" /\ next_index = Return(0)
    /\ (AddCalled /\ ~uploads_exists /\ Len(manifest) = 1 /\ pre.files = <<>>) =>
          /\ selected = <<manifest[1].absolute_path>>
          /\ Len(files) = 1 /\ files[1].path = manifest[1].absolute_path
    /\ (UploadCalled /\ ~pre.uploads_exists /\ Len(manifest) = 1
            /\ buckets.ok_uploads # <<>>) =>
          /\ uploads_exists
          /\ sumo_uploads = <<[last_index_manifest |-> 0,
                               timestamp |-> manifest[1].exported_at]>>
C25_Witness ==
    /\ UploadCalled /\ ~pre.uploads_exists /\ Len(manifest) = 1
    /\ Len(pre.files) = 1 /\ pre.files[1].path = manifest[1].absolute_path
    /\ uploads_exists /\ Len(sumo_uploads) = 1
\* add_files() met an empty manifest file
C25_WitnessEmptyManifest ==
    AddCalled /\ manifest_exists /\ manifest = <<>> /\ sumo_uploads # <<>>

\* C26: add_files() without a manifest file raises FileNotFoundError, warns
\* nothing, and leaves the staged files and the uploads log as they were.
C26_AddFilesWithoutManifest ==
    (AddCalled /\ ~manifest_exists) =>
        /\ raised = "FileNotFoundError" /\ warnings = <<>>
        /\ files = pre.files
        /\ uploads_exists = pre.uploads_exists /\ sumo_uploads = pre.sumo_uploads
C26_Witness ==
    /\ AddCalled /\ ~manifest_exists /\ raised = "FileNotFoundError"
    /\ files # <<>> /\ sumo_uploads # <<>>

-----------------------------------------------------------------------------
(* The uploads log and the value of upload(), under Spec *)

\* C24: every step leaves the uploads log as it is or adds one entry at its
\* end, the entries before it unchanged and in order; the file, once
\* written, stays.
C24_LedgerAppendOnly ==
    [][/\ uploads_exists => uploads_exists'
       /\ \/ sumo_uploads' = sumo_uploads
          \/ /\ Len(sumo_uploads') = Len(sumo_uploads) + 1
             /\ SubSeq(sumo_uploads', 1, Len(sumo_uploads)) = sumo_uploads]_vars
\* an entry was added after a selection that found the log stale (the
\* manifest was regenerated) and started again at index 0
C24_Witness ==
    /\ UploadCalled /\ LogGrew
    /\ Len(pre.sumo_uploads) = 1 /\ Len(sumo_uploads) = 2
    /\ sumo_uploads[1] = pre.sumo_uploads[1]
    /\ manifest[sumo_uploads[1].last_index_manifest + 1].exported_at
           # sumo_uploads[1].timestamp
    /\ Len(pre.files) = 2

\* C27: an upload() of staged files that ends without an exception returns
\* the summary of the upload.
C27_UploadReturnsSummary ==
    (UploadCalled /\ pre.files # <<>> /\ raised = "none") => ret = "summary"

\* the files the uploads log did not cover when upload() was called: what
\* an add_files() would select with the log as it was
Pending ==
    {p \in Paths :
        PathSelected(SelectedWith(pre.uploads_exists, pre.sumo_uploads), p)}
\* path p was staged when upload() was called
Staged(p) == \E i \in 1..Len(pre.files) : pre.files[i].path = p

\* C28: an upload() that adds an entry to the uploads log moves the
\* checkpoint only over records that an add_files() of the object has
\* loaded: every file that the log did not cover before, and that has
\* metadata, was staged for this upload().
C28_CheckpointWithinLoaded ==
    (UploadCalled /\ LogGrew) =>
        \A p \in Pending : disk[p] \in {"bare", "real"} => Staged(p)

-----------------------------------------------------------------------------
(* The local files after upload(), under SpecMove *)

\* the pool with two workers under every mode and under upload attempts that
\* end 'ok', 'rejected' or 'failed'
InitMove == InitCall(UniformFiles, {MaxThreads}, ModesIn, {RemoteClasses})

NextMove ==
    \/ StartUpload
    \/ Scan
    \/ Ensure(EnsureInPool)
    \/ Parameters(ParametersInPool)
    \/ Submit
    \/ \E i \in 1..(MaxBatch + 1) : StartTask(i)
    \/ \E i \in 1..(MaxBatch + 1) : FinishTask(i, {"ok", "invalid", "error"})
    \/ Classify
    \/ Finish

SpecMove == InitMove /\ [][NextMove]_vars

\* the upload of the staged file at position p is over with status 'ok'
UploadedOk(p) == p \in Positions /\ HasStatus(p, "ok")

\* C23: at every moment of upload() the data file and the metadata file of a
\* staged file are gone exactly when the mode is 'move', in any case of the
\* letters, and its upload is over with status 'ok'; in mode 'copy', and for
\* a file whose upload failed, was rejected or is not over, they are as they
\* were when upload() was called.
C23_MoveDeletesAfterOk ==
    \A p \in 1..Len(files) :
        disk[p] = IF UploadedOk(p) /\ sumo_mode \in {"move", "moVE"}
                  THEN "nofile" ELSE files[p].meta
C23_Witness ==
    /\ pc = "returned" /\ raised = "none" /\ sumo_mode = "moVE"
    /\ Len(files) = 2
    /\ UploadedOk(1) /\ disk[1] = "nofile"
    /\ HasStatus(2, "rejected") /\ disk[2] = files[2].meta
\* all uploads 'ok' in mode 'copy': every file is still there
C23_WitnessCopy ==
    /\ pc = "returned" /\ raised = "none" /\ sumo_mode = "copy"
    /\ Len(files) = 2 /\ \A p \in 1..2 : UploadedOk(p) /\ disk[p] # "nofile"

-----------------------------------------------------------------------------
(* The parameters step of the pre-pass, under SpecPrepass *)

\* get_parameter_file or the search of the parameters step raised
ParametersFailed ==
    prepass.triggered /\ (prepass.param = "raise" \/ prepass.search = "raise")

\* C31: after a failure of the parameters step the call goes on without an
\* exception, and when it has returned every staged file had its task.
C31_ParametersFailureNotFatal ==
    ParametersFailed =>
        /\ raised = "none"
        /\ pc = "returned" =>
              /\ Len(tasks) >= Len(files)
              /\ \A i \in 1..Len(files) : tasks[i].file = files[i]

-----------------------------------------------------------------------------
(* The parameters record and the summary, under Spec *)

\* the 'ok' results of this upload() for files selected from the manifest
OkManifestFiles ==
    {k \in 1..Len(buckets.ok_uploads) : buckets.ok_uploads[k].file # paramfile}

\* C32: an upload() adds an entry to the uploads log only if the upload of a
\* file selected from the manifest ended 'ok'.
C32_ParametersAloneNoCheckpoint ==
    (UploadCalled /\ LogGrew) => OkManifestFiles # {}

\* lines 213-223: the counts of the summary (the summary holds str() of
\* each; the numbers are kept here)
summary(self_files, b) ==
    [total_files_count |-> Len(self_files),
     ok_files |-> Len(b.ok_uploads),
     failed_files |-> Len(b.failed_uploads),
     rejected_files |-> Len(b.rejected_uploads)]

\* upload() got as far as its summary
SummaryProduced == UploadCalled /\ pre.files # <<>> /\ raised = "none"

\* C33: in the summary of an upload() the counts of 'ok', failed and
\* rejected files add up to total_files_count, which is the number of staged
\* files.
C33_SummaryCountsAddUp ==
    SummaryProduced =>
        LET s == summary(files, buckets)
        IN  /\ s.ok_files + s.failed_files + s.rejected_files = s.total_files_count
            /\ s.total_files_count = Len(files)

-----------------------------------------------------------------------------
(* A manifest that only grows, under SpecAppend *)

\* the cycles of Spec with a manifest that is never regenerated: records
\* are only appended
NextAppend ==
    \/ Export
    \/ Register
    \/ NewCase
    \/ AddFiles
    \/ Upload
    \/ ReturnToCaller

SpecAppend == Init /\ [][NextAppend]_vars

\* C34: the indices of the uploads log do not decrease from one entry to the
\* next, each is an index of the manifest, and the manifest record at the
\* index of the newest entry has its timestamp; an add_files() that finds
\* entries in the log starts right after the newest entry's index, never at 0.
C34_LedgerNeverStale ==
    /\ \A k \in 1..Len(sumo_uploads) :
          /\ sumo_uploads[k].last_index_manifest \in 0..(Len(manifest) - 1)
          /\ k > 1 => sumo_uploads[k - 1].last_index_manifest
                          <= sumo_uploads[k].last_index_manifest
    /\ sumo_uploads # <<>> =>
          LET last == sumo_uploads[Len(sumo_uploads)]
          IN  /\ manifest[last.last_index_manifest + 1].exported_at = last.timestamp
              /\ AddCalled => next_index = Return(last.last_index_manifest + 1)
C34_Witness ==
    /\ AddCalled /\ Len(sumo_uploads) = 2
    /\ sumo_uploads[1].last_index_manifest = 0
    /\ sumo_uploads[2].last_index_manifest = 1
    /\ next_index = Return(2)

-----------------------------------------------------------------------------
(* One invocation after another on the happy path, under SpecOnce *)

\* how many results of the sequence res are 'ok' results for path p
OkCount(res, p) ==
    Cardinality({k \in 1..Len(res) : res[k].status = "ok" /\ res[k].file.path = p})

\* between invocations fmu-dataio exports a file with its data and metadata
ExportOnce ==
    /\ history.phase = "new"
    /\ Export
    /\ disk'[clock + 1] \in {"bare", "real"}

\* the case gets registered
RegisterOnce == Register /\ registered'

\* an invocation: add_files() on the new object...
AddFilesOnce ==
    /\ history.phase = "new"
    /\ AddFilesStep
    /\ history' = [history EXCEPT !.phase = "added"]

\* ... and upload(), with the pre-pass passing and every upload accepted
UploadOnce ==
    /\ history.phase = "added" /\ registered
    /\ UploadStep
    /\ raised' = "none"
    /\ \A i \in 1..Len(results') : results'[i].status = "ok"
    /\ history' = [phase |-> "done",
                   uploaded |-> [p \in Paths |->
                                    history.uploaded[p] + OkCount(results', p)]]

\* the next invocation makes its own CaseOnDisk object: nothing is staged
NewInvocation ==
    /\ history.phase = "done" /\ pc = "idle"
    /\ files' = <<>>
    /\ history' = [history EXCEPT !.phase = "new"]
    /\ UNCHANGED <<pool_vars, object_vars, ensure_vars, unit_vars>>
    /\ UNCHANGED <<env_vars, uploads_exists, sumo_uploads, registered, pc, call,
                   raised, ret, warnings, logged, add_locals, upload_locals,
                   synced, pre>>

NextOnce ==
    \/ ExportOnce
    \/ RegisterOnce
    \/ AddFilesOnce
    \/ UploadOnce
    \/ NewInvocation
    \/ ReturnToCaller

SpecOnce == Init /\ [][NextOnce]_vars

\* C35: no file is ever uploaded 'ok' twice, and when an invocation is over
\* the file of every record of the manifest has been uploaded 'ok' once.
C35_ExactlyOnce ==
    /\ \A p \in Paths : history.uploaded[p] <= 1
    /\ history.phase = "done" =>
          \A k \in 1..Len(manifest) :
              history.uploaded[manifest[k].absolute_path] = 1
\* the second invocation has uploaded what was exported after the first
C35_Witness ==
    /\ history.phase = "done" /\ UploadCalled
    /\ Len(manifest) = 2 /\ Len(sumo_uploads) = 2
    /\ Len(pre.files) = 1 /\ pre.files[1].path = 2
    /\ \A p \in 1..2 : history.uploaded[p] = 1

-----------------------------------------------------------------------------
(* A register() that succeeds, under SpecCase *)

\* C36: after a register() whose post of the case metadata was accepted,
\* the parent id of the object is the objectid of the answer and register()
\* has returned it without exception and without the warning of a failed
\* registration, whether the shared access key was created or not; a key
\* that was not created is logged.
C36_RegisterSetsParentId ==
    (RegisterCalled /\ registration = "done") =>
        /\ raised = "none" /\ warnings = <<>>
        /\ sumo_parent_id = "objectid" /\ ret = sumo_parent_id
        /\ logged \in {<<>>, <<"Unable to create shared access key">>}
C36_Witness ==
    /\ RegisterCalled /\ registration = "done"
    /\ logged = <<"Unable to create shared access key">>
    /\ sumo_parent_id = "objectid" /\ ret = "objectid"

-----------------------------------------------------------------------------
(* FileOnDisk.__init__, under SpecFile *)

MaxBytes == 2
BytesIn == SeqsUpTo({0, 1}, MaxBytes)

\* the '_sumo' blocks a metadata file may hold already, and the metadata
\* files: with or without such a block
SumoBlocksIn ==
    {[blob_size |-> 9, blob_md5 |-> 9],
     [blob_size |-> 9, blob_md5 |-> 9, extra |-> 1],
     [extra |-> 1]}
MetadataIn == {[fmu |-> 1]} \cup {[fmu |-> 1, _sumo |-> b] : b \in SumoBlocksIn}

\* hashlib.md5(b).digest() and base64.b64encode(...).decode(): a digest that
\* tells any two byte strings of the model apart, and its encoding
RECURSIVE digest(_)
digest(b) == IF b = <<>> THEN 0 ELSE 3 * digest(SubSeq(b, 1, Len(b) - 1)) + b[Len(b)] + 1
b64encode(n) == 1000 + n

\* a slip: the block of the metadata file is kept and the two keys are
\* written into it
FileOnDisk_init_merge(bytes, doc) ==
    LET old == IF "_sumo" \in DOMAIN doc THEN doc["_sumo"] ELSE [blob_size |-> 0]
    IN  [exists |-> TRUE, byte_string |-> bytes,
         metadata |-> [k \in DOMAIN doc \cup {"_sumo"} |->
             IF k = "_sumo"
             THEN [j \in DOMAIN old \cup {"blob_size", "blob_md5"} |->
                      IF j = "blob_size" THEN Len(bytes)
                      ELSE IF j = "blob_md5" THEN b64encode(digest(bytes))
                      ELSE old[j]]
             ELSE doc[k]]]

\* lines 55-74: the metadata parsed from the metadata file, '_sumo' set to a
\* new mapping, the bytes read once and their length and digest written
FileOnDisk_init(bytes, doc) ==
    [exists |-> TRUE, byte_string |-> bytes,
     metadata |-> [k \in DOMAIN doc \cup {"_sumo"} |->
         IF k = "_sumo"
         THEN [blob_size |-> Len(bytes), blob_md5 |-> b64encode(digest(bytes))]
         ELSE doc[k]]]

InitFile ==
    /\ file_bytes \in BytesIn /\ file_metadata \in MetadataIn
    /\ file_object = NoObject
    /\ case_metadata_arg = NoData /\ case_metadata = NoData /\ sanitize_calls = 0
    /\ manifest_exists = FALSE /\ manifest = <<>>
    /\ uploads_exists = FALSE /\ sumo_uploads = <<>>
    /\ disk = [p \in Paths |-> "nofile"]
    /\ clock = 0
    /\ registered = FALSE
    /\ files = <<>>
    /\ pc = "idle" /\ call = "none" /\ raised = "none" /\ ret = "none"
    /\ warnings = <<>> /\ logged = <<>>
    /\ next_index = NoIndex /\ selected = <<>>
    /\ files_to_upload = <<>> /\ prepass = NoPrepass /\ results = <<>>
    /\ buckets = NoBuckets /\ remote_calls = {}
    /\ synced = FALSE /\ pre = NoPre
    /\ NoPool /\ NewObject /\ NoHistory

case_vars == <<manifest_exists, manifest, uploads_exists, sumo_uploads, disk,
               clock, registered, files, pc, call, raised, ret, warnings, logged,
               add_locals, upload_locals, synced, pre, pool_vars, object_vars,
               ensure_vars, history>>

\* FileOnDisk(path)
Construct ==
    /\ ~file_object.exists
    /\ file_object' = FileOnDisk_init(file_bytes, file_metadata)
    /\ UNCHANGED <<file_bytes, file_metadata, case_metadata_arg, case_metadata,
                   sanitize_calls>>
    /\ UNCHANGED case_vars

\* the data file is written again by its exporter
ChangeFile ==
    /\ \E b \in BytesIn : b # file_bytes /\ file_bytes' = b
    /\ UNCHANGED <<file_metadata, file_object, case_metadata_arg, case_metadata,
                   sanitize_calls>>
    /\ UNCHANGED case_vars

NextFile ==
    \/ Construct
    \/ ChangeFile

SpecFile == InitFile /\ [][NextFile]_vars

\* C37: the metadata of a FileOnDisk has a '_sumo' block with the keys
\* blob_size and blob_md5 and no other, blob_size is the length of the bytes
\* the object holds and blob_md5 the encoded digest of these bytes, whatever
\* the metadata file held under '_sumo' and whatever the data file holds
\* now; the other keys are those of the metadata file.
C37_SumoBlockOfHeldBytes ==
    file_object.exists =>
        LET block == file_object.metadata["_sumo"]
        IN  /\ DOMAIN block = {"blob_size", "blob_md5"}
            /\ block.blob_size = Len(file_object.byte_string)
            /\ block.blob_md5 = b64encode(digest(file_object.byte_string))
            /\ \A k \in DOMAIN file_metadata \ {"_sumo"} :
                  file_object.metadata[k] = file_metadata[k]
            /\ DOMAIN file_object.metadata = DOMAIN file_metadata \cup {"_sumo"}
\* the metadata file had a block with a key of its own, and the data file
\* was rewritten with other bytes after the object was made
C37_Witness ==
    /\ file_object.exists
    /\ "_sumo" \in DOMAIN file_metadata
    /\ "extra" \in DOMAIN file_metadata["_sumo"]
    /\ file_bytes # file_object.byte_string
    /\ Len(file_bytes) # Len(file_object.byte_string)

-----------------------------------------------------------------------------
(* _sanitize_datetimes, under SpecSanitize *)

MaxDepth == 2
MaxCalls == 2

\* parsed YAML: a datetime, a string, a date (datetime.date is no
\* datetime.datetime), a mapping or a list
LeavesIn == {[t |-> "datetime", v |-> 1], [t |-> "str", v |-> 1],
             [t |-> "date", v |-> 1]}
Dict(entries) == [t |-> "dict", entries |-> entries]
List(elements) == [t |-> "list", elements |-> elements]

\* the values of nesting depth up to d: empty and one-entry mappings and
\* lists of the values one level down, and two-entry ones with a leaf
RECURSIVE DataIn(_)
DataIn(d) ==
    IF d = 0 THEN LeavesIn
    ELSE LET sub == DataIn(d - 1) IN
         LeavesIn
         \cup {Dict(<<>>), List(<<>>)}
         \cup {Dict([k \in {"a"} |-> c]) : c \in sub}
         \cup {Dict([k \in {"a", "b"} |-> IF k = "a" THEN c ELSE l]) :
                  c \in sub, l \in LeavesIn}
         \cup {List(<<c>>) : c \in sub}
         \cup {List(<<l, c>>) : c \in sub, l \in LeavesIn}

\* datetime.isoformat(): a string, and one no input string equals
isoformat(data) == [t |-> "str", v |-> 100 + data.v]

\* a slip: lists are returned as they are
RECURSIVE _sanitize_datetimes_nolist(_)
_sanitize_datetimes_nolist(data) ==
    IF data.t = "datetime" THEN isoformat(data)
    ELSE IF data.t = "dict"
    THEN Dict([k \in DOMAIN data.entries |->
                  _sanitize_datetimes_nolist(data.entries[k])])
    ELSE data

\* lines 311-328
RECURSIVE _sanitize_datetimes(_)
_sanitize_datetimes(data) ==
    IF data.t = "datetime" THEN isoformat(data)
    ELSE IF data.t = "dict"
    THEN Dict([k \in DOMAIN data.entries |-> _sanitize_datetimes(data.entries[k])])
    ELSE IF data.t = "list"
    THEN List([i \in 1..Len(data.elements) |->
                  _sanitize_datetimes(data.elements[i])])
    ELSE data

InitSanitize ==
    /\ case_metadata_arg \in DataIn(MaxDepth)
    /\ case_metadata = NoData /\ sanitize_calls = 0
    /\ file_bytes = <<>> /\ file_metadata = [fmu |-> 1] /\ file_object = NoObject
    /\ manifest_exists = FALSE /\ manifest = <<>>
    /\ uploads_exists = FALSE /\ sumo_uploads = <<>>
    /\ disk = [p \in Paths |-> "nofile"]
    /\ clock = 0
    /\ registered = FALSE
    /\ files = <<>>
    /\ pc = "idle" /\ call = "none" /\ raised = "none" /\ ret = "none"
    /\ warnings = <<>> /\ logged = <<>>
    /\ next_index = NoIndex /\ selected = <<>>
    /\ files_to_upload = <<>> /\ prepass = NoPrepass /\ results = <<>>
    /\ buckets = NoBuckets /\ remote_calls = {}
    /\ synced = FALSE /\ pre = NoPre
    /\ NoPool /\ NewObject /\ NoHistory

\* SumoCase.__init__ line 36, and the function applied again to its result
SanitizeDatetimes ==
    /\ sanitize_calls < MaxCalls
    /\ case_metadata' = _sanitize_datetimes(IF sanitize_calls = 0
                                            THEN case_metadata_arg
                                            ELSE case_metadata)
    /\ sanitize_calls' = sanitize_calls + 1
    /\ UNCHANGED <<file_bytes, file_metadata, file_object, case_metadata_arg>>
    /\ UNCHANGED case_vars

NextSanitize == SanitizeDatetimes

SpecSanitize == InitSanitize /\ [][NextSanitize]_vars

\* a datetime is in the value, at any depth
RECURSIVE HasDatetime(_)
HasDatetime(data) ==
    \/ data.t = "datetime"
    \/ data.t = "dict" /\ \E k \in DOMAIN data.entries : HasDatetime(data.entries[k])
    \/ data.t = "list" /\ \E i \in 1..Len(data.elements) : HasDatetime(data.elements[i])

\* b is a with every datetime replaced by its ISO string and nothing else
\* changed
RECURSIVE OnlyDatetimesReplaced(_, _)
OnlyDatetimesReplaced(a, b) ==
    IF a.t = "datetime" THEN b = isoformat(a)
    ELSE IF a.t = "dict"
    THEN /\ b.t = "dict" /\ DOMAIN b.entries = DOMAIN a.entries
         /\ \A k \in DOMAIN a.entries :
               OnlyDatetimesReplaced(a.entries[k], b.entries[k])
    ELSE IF a.t = "list"
    THEN /\ b.t = "list" /\ Len(b.elements) = Len(a.elements)
         /\ \A i \in 1..Len(a.elements) :
               OnlyDatetimesReplaced(a.elements[i], b.elements[i])
    ELSE b = a

\* C38: after one application, and after a second one just the same, the
\* case metadata holds no datetime at any depth and is the argument with
\* each datetime replaced by its ISO string and nothing else changed.
C38_DatetimesSanitized ==
    sanitize_calls >= 1 =>
        /\ ~HasDatetime(case_metadata)
        /\ OnlyDatetimesReplaced(case_metadata_arg, case_metadata)
\* a mapping with a list that holds a string and a datetime, next to a date
C38_Witness ==
    /\ sanitize_calls = MaxCalls
    /\ case_metadata_arg.t = "dict" /\ DOMAIN case_metadata_arg.entries = {"a", "b"}
    /\ case_metadata_arg.entries["b"].t = "date"
    /\ case_metadata_arg.entries["a"].t = "list"
    /\ Len(case_metadata_arg.entries["a"].elements) = 2
    /\ case_metadata_arg.entries["a"].elements[2].t = "datetime"
    /\ case_metadata.entries["a"].elements[2] = [t |-> "str", v |-> 101]
    /\ case_metadata.entries["b"].t = "date"

====
